---- MODULE Spec2Model ----
(***************************************************************************)
(* Model of the AgroEcoGym engine: the two-phase stepping protocol of      *)
(* SimulationCore / StateManager and the flat action space of              *)
(* SpaceBuilder / ActionConverter.                                         *)
(*                                                                         *)
(* Field, Farmer, Rules and Scoring are collaborators whose code is not    *)
(* part of the engine sources; they are modelled from their interface      *)
(* contract (reset / update_to_next_day / perform_* / filter_actions /     *)
(* assert_actions / is_terminal / *_cost / reward / final_reward).         *)
(***************************************************************************)
EXTENDS Integers, Sequences, FiniteSets, TLC

(***************************************************************************)
(* Bounds of the model.                                                    *)
(***************************************************************************)
NumFields == 2
NumFarmers == 1
MaxWater == 1
MaxDay == 2
MaxSeed == 1
MaxSchedule == 2
MaxDirect == 1
RngMod == 4

(***************************************************************************)
(* Program constants.                                                      *)
(***************************************************************************)
DefaultBins == 11

FieldIds == 1..NumFields
FarmerIds == 1..NumFarmers
NoSeed == -1
Seeds == 0..MaxSeed

Min(a, b) == IF a < b THEN a ELSE b
Max(a, b) == IF a > b THEN a ELSE b

RECURSIVE SumSeq(_)
SumSeq(s) == IF s = <<>> THEN 0 ELSE Head(s) + SumSeq(Tail(s))

RECURSIVE FlatSeq(_)
FlatSeq(ss) == IF ss = <<>> THEN <<>> ELSE Head(ss) \o FlatSeq(Tail(ss))

(***************************************************************************)
(* The random generator: seeding.np_random(seed) makes a fresh generator   *)
(* whose state is a function of the seed; every draw advances the state.   *)
(***************************************************************************)
np_random_of(seed) == seed % RngMod
rng_next(g) == (5 * g + 3) % RngMod
rng_draw(g) == (g \div 2) % 2

(* The generators seeding.np_random(seed) can return: one for a given     *)
(* seed, any (fresh entropy) for seed = None.                              *)
seeding_np_random(seed) ==
    IF seed = -1 THEN 0..(RngMod - 1) ELSE {np_random_of(seed)}

RECURSIVE rng_after(_, _)
rng_after(g, k) == IF k = 0 THEN g ELSE rng_after(rng_next(g), k - 1)

(***************************************************************************)
(* Entities of one field, reduced to two variables of its variable tree:   *)
(* the day counter and a water stock.  reset() re-initialises the tree and *)
(* runs one update (one random draw); update_variables() advances the day  *)
(* and consumes water by one random draw; act_on_variables() applies an    *)
(* intervention.                                                           *)
(***************************************************************************)
(* The variable tree as the entity's constructor builds it.                *)
entity_init == [day |-> 0, water |-> MaxWater]

entity_reset(draw) == [day |-> 0, water |-> MaxWater - draw]

entity_update_variables(f, draw) ==
    [day |-> f.day + 1, water |-> Max(0, f.water - draw)]

entity_act_on_variables(f, action_name) ==
    CASE action_name = "water" -> [f EXCEPT !.water = Min(MaxWater, f.water + 1)]
      [] action_name = "harvest" -> [f EXCEPT !.water = 0]
      [] OTHER -> f

entity_observe_variable(f, variable_key) ==
    IF variable_key = "day" THEN f.day ELSE f.water

(* Field.reset(): hands the field's generator to its entities and resets   *)
(* them; field i consumes the i-th draw of the generator.                  *)
fields_reset(g) == [i \in FieldIds |-> entity_reset(rng_draw(rng_after(g, i - 1)))]

(* Field.update_to_next_day() of every field, in registration order.       *)
fields_update_to_next_day(fs, g) ==
    [i \in FieldIds |-> entity_update_variables(fs[i], rng_draw(rng_after(g, i - 1)))]

(***************************************************************************)
(* Parameter schemas of the action whitelist (the YAML value f_a).         *)
(* type "box"  : the string "(lo, hi)", a continuous interval;             *)
(* type "list" : a finite list, dom holds its elements;                    *)
(* type "none" : no parameter;                                             *)
(* type "dict" : a mapping, items holds (key, leaf) in declared order; a   *)
(*               leaf of type "dict" is a nested mapping.                  *)
(* Keys are numbered by their alphabetical rank.                           *)
(***************************************************************************)
LeafBox(lo, hi) == [type |-> "box", lo |-> lo, hi |-> hi, dom |-> <<>>]
LeafList(dom) == [type |-> "list", lo |-> 0, hi |-> 0, dom |-> dom]
LeafNone == [type |-> "none", lo |-> 0, hi |-> 0, dom |-> <<>>]
Item(key, leaf) == [key |-> key, leaf |-> leaf]
Schema(leaf) == [type |-> leaf.type, lo |-> leaf.lo, hi |-> leaf.hi, dom |-> leaf.dom, items |-> <<>>]
SchemaDict(items) == [type |-> "dict", lo |-> 0, hi |-> 0, dom |-> <<>>, items |-> items]

(* gymnasium.spaces.Dict keeps its sub-spaces sorted by key.               *)
RECURSIVE SortByKey(_)
SortByKey(items) ==
    IF items = <<>> THEN <<>>
    ELSE LET k == CHOOSE i \in 1..Len(items) :
                      \A j \in 1..Len(items) : items[i].key <= items[j].key
             rest == [j \in 1..(Len(items) - 1) |-> IF j < k THEN items[j] ELSE items[j + 1]]
         IN <<items[k]>> \o SortByKey(rest)

(* SpaceBuilder.build_farmgym_intervention_actions.make                     *)
RECURSIVE make_leaf(_)
make_leaf(leaf) ==
    CASE leaf.type = "box" -> [type |-> "Box", low |-> leaf.lo, high |-> leaf.hi, n |-> 0]
      [] leaf.type = "list" -> [type |-> "Discrete", low |-> 0, high |-> 0, n |-> Len(leaf.dom)]
      [] leaf.type = "dict" ->
           [type |-> "Dict", low |-> 0, high |-> 0, n |-> 0,
            spaces |-> SortByKey([i \in 1..Len(leaf.items) |->
                          [key |-> leaf.items[i].key, space |-> make_leaf(leaf.items[i].leaf)]])]
      [] OTHER -> [type |-> "Discrete", low |-> 0, high |-> 0, n |-> 1]

make(action) ==
    IF action.type = "dict"
    THEN [type |-> "Dict", low |-> 0, high |-> 0, n |-> 0,
          spaces |-> SortByKey([i \in 1..Len(action.items) |->
                        [key |-> action.items[i].key, space |-> make_leaf(action.items[i].leaf)]])]
    ELSE LET g == make_leaf(action)
         IN [type |-> g.type, low |-> g.low, high |-> g.high, n |-> g.n, spaces |-> <<>>]

(* Factor one sub-space of a Dict space contributes to the product: a      *)
(* sub-space that is neither Discrete nor Box is passed over.              *)
axis_card(space, nbins) ==
    CASE space.type = "Discrete" -> space.n
      [] space.type = "Box" -> nbins
      [] OTHER -> 1

RECURSIVE ProdCards(_, _)
ProdCards(spaces, nbins) ==
    IF spaces = <<>> THEN 1
    ELSE axis_card(Head(spaces).space, nbins) * ProdCards(Tail(spaces), nbins)

(* SpaceBuilder.build_farmgym_intervention_actions.len_discretized_gym_space *)
len_discretized_gym_space(gym_space, nbins) ==
    CASE gym_space.type = "Dict" -> ProdCards(gym_space.spaces, nbins)
      [] gym_space.type = "Discrete" -> gym_space.n
      [] OTHER -> nbins

(***************************************************************************)
(* The action whitelist rules.actions_allowed: the observations and free   *)
(* observations (already expanded to catalog tuples), the interventions    *)
(* (farmer, field, entity, action, schema) and the parameters; nbins = 0   *)
(* stands for an absent "number_of_bins_to_discretize_continuous_actions". *)
(***************************************************************************)
ObsEntry(fa, fi, var) == [fa |-> fa, fi |-> fi, e |-> "Soil-0", var |-> var, path |-> <<>>]
IntEntry(fa, fi, a, f_a) == [fa |-> fa, fi |-> fi, e |-> "Soil-0", a |-> a, f_a |-> f_a]

SchemaPlotAmount ==
    SchemaDict(<<Item(2, LeafList(<<0, 1>>)), Item(1, LeafList(<<1, 2>>))>>)

Whitelists ==
    << [observations |-> <<ObsEntry(1, 1, "day"), ObsEntry(1, 1, "water"), ObsEntry(1, 2, "water")>>,
       free |-> <<ObsEntry(0, 1, "water"), ObsEntry(0, 2, "water")>>,
       interventions |-> <<IntEntry(1, 1, "water", SchemaPlotAmount)>>,
       nbins |-> 0],
      [observations |-> <<ObsEntry(1, 2, "water")>>,
       free |-> <<ObsEntry(0, 1, "day")>>,
       interventions |-> <<IntEntry(1, 1, "water", Schema(LeafBox(0, 20))),
                           IntEntry(1, 1, "harvest", Schema(LeafList(<<0, 1>>))),
                           IntEntry(1, 2, "harvest", Schema(LeafNone))>>,
       nbins |-> 2],
      [observations |-> <<>>,
       free |-> <<>>,
       interventions |-> <<IntEntry(1, 2, "water", Schema(LeafBox(0, 20))),
                           IntEntry(1, 1, "harvest", Schema(LeafNone))>>,
       nbins |-> 0] >>

(* The farms of the model: a whitelist and an interaction mode.            *)
Farms ==
    { [allowed |-> Whitelists[1], mode |-> "AOMDP"],
      [allowed |-> Whitelists[2], mode |-> "AOMDP"],
      [allowed |-> Whitelists[2], mode |-> "POMDP"] }

(* SpaceBuilder._get_discretization_bins                                   *)
get_discretization_bins(allowed) == IF allowed.nbins = 0 THEN DefaultBins ELSE allowed.nbins

(* Variant: the observation catalog is returned in every mode.             *)
build_farmgym_observation_actions_any_mode(allowed, mode) == allowed.observations

(* SpaceBuilder.build_farmgym_observation_actions: the catalog used for    *)
(* indexing, and rules.free_observations as a side effect.                 *)
build_farmgym_observation_actions(allowed, mode) ==
    IF mode = "AOMDP" THEN allowed.observations ELSE <<>>

build_free_observations(allowed) == allowed.free

(* SpaceBuilder.build_farmgym_intervention_actions                         *)
build_farmgym_intervention_actions(allowed) ==
    [k \in 1..Len(allowed.interventions) |->
        LET w == allowed.interventions[k]
            gym_a == make(w.f_a)
        IN [fa |-> w.fa, fi |-> w.fi, e |-> w.e, a |-> w.a, f_a |-> w.f_a, g |-> gym_a,
            ng |-> len_discretized_gym_space(gym_a, get_discretization_bins(allowed))]]

(* SpaceBuilder.__init__                                                   *)
SpaceBuilder(allowed, mode) ==
    [discretization_nbins |-> get_discretization_bins(allowed),
     farmgym_observation_actions |-> build_farmgym_observation_actions(allowed, mode),
     farmgym_intervention_actions |-> build_farmgym_intervention_actions(allowed)]

(* SpaceBuilder.build_gym_discretized_action_space: n of Discrete(naction) *)
build_gym_discretized_action_space(sb) ==
    Len(sb.farmgym_observation_actions)
      + SumSeq([k \in 1..Len(sb.farmgym_intervention_actions) |-> sb.farmgym_intervention_actions[k].ng])


(***************************************************************************)
(* ActionConverter: flat gym indices -> structured farmgym actions.        *)
(* A structured action is a record; an observation action carries a path,  *)
(* an intervention carries params, a sequence of (key, value) in the       *)
(* schema's declared order (key 0: the schema is a single leaf).  A value  *)
(* is the rational num/den; den = 0 stands for the empty mapping {}.       *)
(***************************************************************************)
Rat(num, den) == [num |-> num, den |-> den]
Param(key, val) == [key |-> key, val |-> val]

ObsAction(o) ==
    [kind |-> "obs", fa |-> o.fa, fi |-> o.fi, e |-> o.e, name |-> o.var,
     path |-> o.path, params |-> <<>>]
IntAction(fa, fi, e, a, params) ==
    [kind |-> "int", fa |-> fa, fi |-> fi, e |-> e, name |-> a, path |-> <<>>, params |-> params]

(* The linear scan of gymaction_to_discretized_farmgymaction over the      *)
(* intervention catalog: the entry whose block holds theindex and the      *)
(* offset inside the block; k = 0 when the scan ends with theaction = None.*)
RECURSIVE scan_blocks(_, _, _)
scan_blocks(entries, k, theindex) ==
    IF k > Len(entries) THEN [k |-> 0, theindex |-> theindex]
    ELSE IF entries[k].ng > theindex THEN [k |-> k, theindex |-> theindex]
    ELSE scan_blocks(entries, k + 1, theindex - entries[k].ng)

(* Variant of the value of a digit: the interval is cut in nbins parts.    *)
axis_value_over_bins(space, j, nbins) ==
    IF space.type = "Discrete" THEN Rat(j, 1)
    ELSE Rat(space.low * nbins + j * (space.high - space.low), nbins)

(* Value of digit j on one axis: the digit itself for a Discrete axis,     *)
(* m + j / (nbins + 1) * (M - m) for a Box axis.                           *)
axis_value(space, j, nbins) ==
    IF space.type = "Discrete" THEN Rat(j, 1)
    ELSE Rat(space.low * (nbins + 1) + j * (space.high - space.low), nbins + 1)

(* The loop "for key in g" of the Dict branch: mixed-radix digits in the   *)
(* order of g's keys; a key whose sub-space is neither Discrete nor Box    *)
(* gets no entry in act.                                                   *)
RECURSIVE dict_digits(_, _, _, _)
dict_digits(spaces, factor, i, nbins) ==
    IF spaces = <<>> THEN <<>>
    ELSE IF Head(spaces).space.type \notin {"Discrete", "Box"}
    THEN dict_digits(Tail(spaces), factor, i, nbins)
    ELSE LET sp == Head(spaces).space
             f == factor \div axis_card(sp, nbins)
             j == i \div f
         IN <<Param(Head(spaces).key, axis_value(sp, j, nbins))>>
              \o dict_digits(Tail(spaces), f, i - j * f, nbins)

(* act of the decoded index, before _convert_param.                        *)
decode_act(entry, theindex, nbins) ==
    CASE entry.g.type = "Discrete" -> <<Param(0, Rat(theindex, 1))>>
      [] entry.g.type = "Box" ->
           LET factor == entry.ng \div nbins
               j == theindex \div factor
           IN <<Param(0, axis_value(entry.g, j, nbins))>>
      [] OTHER -> dict_digits(entry.g.spaces, entry.ng, theindex, nbins)

act_lookup(act, key) == (CHOOSE p \in {act[i] : i \in 1..Len(act)} : p.key = key).val

(* A list element that is a string spelling a tuple of integers, "(0, p)", *)
(* is the number TupleString(p); yml_tuple_constructor(., int) parses it   *)
(* to the tuple, a value of denominator -1.                                *)
TupleString(p) == 100 + p
yml_tuple_constructor(e) == [num |-> e - 100, den |-> -1]

(* Variant of _convert_param on one leaf: the digit is returned as it is.  *)
convert_leaf_digit(value, leaf) == value

(* ActionConverter._convert_param on one leaf.                             *)
convert_leaf(value, leaf) ==
    CASE leaf.type = "none" -> Rat(0, 0)
      [] leaf.type = "list" ->
           IF leaf.dom[value.num + 1] >= TupleString(0)
           THEN yml_tuple_constructor(leaf.dom[value.num + 1])
           ELSE Rat(leaf.dom[value.num + 1], 1)
      [] OTHER -> value

(* ActionConverter._convert_param raises KeyError: ranges is a mapping and *)
(* value[k] is looked up for a key k that act does not hold.               *)
convert_param_raises(act, ranges) ==
    /\ ranges.type = "dict"
    /\ \E i \in 1..Len(ranges.items) :
          \A p \in 1..Len(act) : act[p].key # ranges.items[i].key

(* ActionConverter._convert_param, when it returns.                        *)
convert_param(act, ranges) ==
    CASE ranges.type = "none" -> <<>>
      [] ranges.type = "dict" ->
           [i \in 1..Len(ranges.items) |->
               Param(ranges.items[i].key,
                     convert_leaf(act_lookup(act, ranges.items[i].key), ranges.items[i].leaf))]
      [] OTHER -> <<Param(0, convert_leaf(act[1].val, ranges))>>

(* Variant of the decoding: the scan of the intervention catalog starts    *)
(* from the flat index, the size of the observation catalog not taken off. *)
decode_index_no_offset(sb, action) ==
    LET obs == sb.farmgym_observation_actions
        O == Len(obs)
    IN IF action < O
       THEN IF action >= 0 THEN [ok |-> TRUE, acts |-> <<ObsAction(obs[action + 1])>>]
            ELSE IF action >= -O THEN [ok |-> TRUE, acts |-> <<ObsAction(obs[O + action + 1])>>]
            ELSE [ok |-> FALSE, acts |-> <<>>]
       ELSE LET hit == scan_blocks(sb.farmgym_intervention_actions, 1, action)
            IN IF hit.k = 0 THEN [ok |-> FALSE, acts |-> <<>>]
               ELSE LET en == sb.farmgym_intervention_actions[hit.k]
                        act == decode_act(en, hit.theindex, sb.discretization_nbins)
                    IN IF convert_param_raises(act, en.f_a) THEN [ok |-> FALSE, acts |-> <<>>]
                       ELSE [ok |-> TRUE,
                             acts |-> <<IntAction(en.fa, en.fi, en.e, en.a,
                                                  convert_param(act, en.f_a))>>]

(* One iteration of the loop of gymaction_to_discretized_farmgymaction.    *)
(* Python indexing: obs[action] with -O <= action < 0 counts from the end, *)
(* below -O it raises IndexError; unpacking theaction = None raises        *)
(* TypeError; _convert_param may raise KeyError.                           *)
decode_index(sb, action) ==
    LET obs == sb.farmgym_observation_actions
        O == Len(obs)
    IN IF action < O
       THEN IF action >= 0 THEN [ok |-> TRUE, acts |-> <<ObsAction(obs[action + 1])>>]
            ELSE IF action >= -O THEN [ok |-> TRUE, acts |-> <<ObsAction(obs[O + action + 1])>>]
            ELSE [ok |-> FALSE, acts |-> <<>>]
       ELSE LET hit == scan_blocks(sb.farmgym_intervention_actions, 1, action - O)
            IN IF hit.k = 0 THEN [ok |-> FALSE, acts |-> <<>>]
               ELSE LET en == sb.farmgym_intervention_actions[hit.k]
                        act == decode_act(en, hit.theindex, sb.discretization_nbins)
                    IN IF convert_param_raises(act, en.f_a) THEN [ok |-> FALSE, acts |-> <<>>]
                       ELSE [ok |-> TRUE,
                             acts |-> <<IntAction(en.fa, en.fi, en.e, en.a,
                                                  convert_param(act, en.f_a))>>]

(* ActionConverter.gymaction_to_discretized_farmgymaction: ok = FALSE when  *)
(* the call raises.                                                         *)
gymaction_to_discretized_farmgymaction(sb, actions) ==
    LET each == [i \in 1..Len(actions) |-> decode_index(sb, actions[i])]
    IN [ok |-> \A i \in 1..Len(actions) : each[i].ok,
        acts |-> FlatSeq([i \in 1..Len(actions) |-> each[i].acts])]

(* a[0] in the loop of discretized_farmgymaction_to_gymaction: the         *)
(* statement "fa, fi, e, a, p = a[0]" has bound a to the fourth component  *)
(* of the decoded tuple, the action or variable name, and a[0] is its      *)
(* first character.                                                        *)
first_item(name) == [first_item_of |-> name]

(* ActionConverter.discretized_farmgymaction_to_gymaction: every index of  *)
(* range(action_space.space.n + len(farmgym_observation_actions)) is       *)
(* decoded for every action of the list; ok = FALSE when a decoding raises.*)
discretized_farmgymaction_to_gymaction(sb, actions) ==
    LET nb_tot_actions == build_gym_discretized_action_space(sb)
                            + Len(sb.farmgym_observation_actions)
        a == [i \in 0..(nb_tot_actions - 1) |->
                 gymaction_to_discretized_farmgymaction(sb, <<i>>)]
        matches(action) ==
            SelectSeq([k \in 1..nb_tot_actions |-> k - 1],
                      LAMBDA i : action = first_item(a[i].acts[1].name))
    IN IF actions = <<>> THEN [ok |-> TRUE, ii |-> <<>>]
       ELSE IF \E i \in 0..(nb_tot_actions - 1) : ~a[i].ok THEN [ok |-> FALSE, ii |-> <<>>]
       ELSE [ok |-> TRUE, ii |-> FlatSeq([k \in 1..Len(actions) |-> matches(actions[k])])]


(***************************************************************************)
(* Entity_API: Range and the construction of an entity.  A value is a      *)
(* record: real = TRUE for a number v, FALSE for anything else (a string,  *)
(* None).  A range is a tuple (min, max) or a list dom.                    *)
(***************************************************************************)
Num(v) == [real |-> TRUE, v |-> v]
Str(v) == [real |-> FALSE, v |-> v]
None == [real |-> FALSE, v |-> 0]
TupleRange(min, max) == [tuple |-> TRUE, min |-> min, max |-> max, dom |-> <<>>]
ListRange(dom) == [tuple |-> FALSE, min |-> 0, max |-> 0, dom |-> dom]

(* Range.__init__: raised = TRUE when max(min, min(max, value)) compares a *)
(* number with a value that is not one (TypeError).                        *)
Range(range, value) ==
    IF range.tuple
    THEN IF value.real
         THEN [raised |-> FALSE, range |-> range, default_value |-> value,
               value |-> Num(Max(range.min, Min(range.max, value.v)))]
         ELSE [raised |-> TRUE, range |-> range, default_value |-> value, value |-> None]
    ELSE [raised |-> FALSE, range |-> range, default_value |-> value,
          value |-> IF value \in {range.dom[i] : i \in 1..Len(range.dom)} THEN value
                    ELSE IF Len(range.dom) > 0 THEN range.dom[1]
                    ELSE None]

(* Variant of Range.set_value: the value is stored as given.               *)
set_value_as_given(r, value) == [r EXCEPT !.value = value]

(* Range.set_value                                                         *)
set_value(r, value) ==
    IF r.range.tuple
    THEN IF value.real
         THEN [r EXCEPT !.value = Num(Max(r.range.min, Min(r.range.max, value.v)))]
         ELSE [r EXCEPT !.value = r.default_value]
    ELSE IF value \in {r.range.dom[i] : i \in 1..Len(r.range.dom)}
         THEN [r EXCEPT !.value = value]
         ELSE r

(* The keys an entity kind requires: get_parameter_keys().                 *)
get_parameter_keys == {1, 2}

(* The specification files of the entity kind, by name, each with the keys *)
(* it holds; load_yaml returns the content of the named file and fails     *)
(* when there is no such file.                                             *)
SpecificationFiles == [base |-> {1, 2, 3}, dry |-> {1}]

load_yaml(name) ==
    IF name \in DOMAIN SpecificationFiles
    THEN [raised |-> FALSE, keys |-> SpecificationFiles[name]]
    ELSE [raised |-> TRUE, keys |-> {}]

(* Entity_API.__init__: parameters is the name of a specification file     *)
(* (is_str) or a mapping, of which the keys are kept.                      *)
Entity_API(parameters) ==
    IF parameters.is_str
    THEN LET loaded == load_yaml(parameters.name)
         IN [built |-> ~loaded.raised, parameters |-> loaded.keys]
    ELSE [built |-> \A k \in get_parameter_keys : k \in parameters.keys,
          parameters |-> parameters.keys]


(***************************************************************************)
(* Rules collaborator.                                                     *)
(***************************************************************************)
SeqToSet(s) == {s[i] : i \in 1..Len(s)}

is_allowed_observation(allowed, a) ==
    a.kind = "obs" /\ \E o \in SeqToSet(allowed.observations) : ObsAction(o) = a

is_allowed_intervention(allowed, a) ==
    a.kind = "int" /\ \E w \in SeqToSet(allowed.interventions) :
        w.fa = a.fa /\ w.fi = a.fi /\ w.e = a.e /\ w.a = a.name

(* Rules.filter_actions: observation actions are kept in the observe       *)
(* phase only, interventions in the intervene phase only.                  *)
filter_actions(allowed, action_schedule, is_observation_time) ==
    SelectSeq(action_schedule,
              LAMBDA a : IF is_observation_time THEN is_allowed_observation(allowed, a)
                         ELSE is_allowed_intervention(allowed, a))

leaf_admits(leaf, val) ==
    CASE leaf.type = "box" -> val.den > 0 /\ leaf.lo * val.den <= val.num /\ val.num <= leaf.hi * val.den
      [] leaf.type = "list" -> val.den = 1 /\ val.num \in SeqToSet(leaf.dom)
      [] OTHER -> val.den = 0

(* The key that stands for "plot".                                         *)
plot == 3

(* str() of a parameter value: the tuple p is written as the string        *)
(* TupleString(p), a string is itself, a number is written as a string     *)
(* that names no tuple.                                                    *)
str(val) ==
    CASE val.den = -1 -> Rat(TupleString(val.num), 1)
      [] val.den = 1 /\ val.num >= TupleString(0) -> val
      [] OTHER -> Rat(2 * TupleString(0) + 10 * val.num + val.den, 1)

(* Entity_API.assert_action: every parameter key is declared and its value *)
(* lies in the declared interval or list; the value of the key "plot" is   *)
(* looked up in a declared list by its string.                             *)
assert_action(f_a, params) ==
    \A p \in SeqToSet(params) :
        IF f_a.type = "dict"
        THEN \E it \in SeqToSet(f_a.items) :
                /\ it.key = p.key
                /\ IF it.leaf.type # "box" /\ p.key = plot
                   THEN leaf_admits(it.leaf, str(p.val))
                   ELSE leaf_admits(it.leaf, p.val)
        ELSE p.key = 0 /\ leaf_admits(f_a, p.val)

(***************************************************************************)
(* The soil entity alone: its declared actions, the water stock of each    *)
(* plot and the cumulated added water (Range objects), its capacity.       *)
(***************************************************************************)
soil_actions(plots, amount_max) ==
    [water_discrete |->
         SchemaDict(<<Item(plot, LeafList(plots)),
                      Item(1, LeafList([i \in 1..(amount_max + 1) |-> i - 1]))>>),
     water_continuous |->
         SchemaDict(<<Item(plot, LeafList(plots)), Item(1, LeafBox(0, amount_max))>>)]

Soil(plots, amount_max, capacity) ==
    [actions |-> soil_actions(plots, amount_max),
     max_water_plot_capacity |-> capacity,
     variables |->
         [available_Water |-> [x \in 1..Len(plots) |-> Range(TupleRange(0, 10 * capacity), Num(0))],
          total_cumulated_added_water |->
              Range(TupleRange(0, 10 * capacity * Len(plots)), Num(0))]]

has_key(params, key) == \E i \in 1..Len(params) : params[i].key = key

(* Variant: the stock is written before the action is asserted.            *)
act_on_variables_then_assert(en, action_name, action_params) ==
    LET x == IF has_key(action_params, plot) /\ act_lookup(action_params, plot).den = -1
                  /\ act_lookup(action_params, plot).num + 1 \in DOMAIN en.variables.available_Water
             THEN act_lookup(action_params, plot).num + 1 ELSE 1
        written == [en.variables EXCEPT
                       !.available_Water[x] = set_value(@, Num(en.max_water_plot_capacity))]
    IN [raised |-> ~(action_name \in DOMAIN en.actions
                      /\ assert_action(en.actions[action_name], action_params)),
        error |-> "AssertionError", variables |-> written]

(* Soil.act_on_variables: the action is asserted first; a watering action  *)
(* then reads its two parameters (a missing key, or a plot that is not a   *)
(* pair, raises there) and writes the stock of the plot and the cumulated  *)
(* added water.                                                            *)
act_on_variables(en, action_name, action_params) ==
    IF ~(action_name \in DOMAIN en.actions
           /\ assert_action(en.actions[action_name], action_params))
    THEN [raised |-> TRUE, error |-> "AssertionError", variables |-> en.variables]
    ELSE IF ~has_key(action_params, plot)
    THEN [raised |-> TRUE, error |-> "KeyError", variables |-> en.variables]
    ELSE IF act_lookup(action_params, plot).den # -1
    THEN [raised |-> TRUE, error |-> "ValueError", variables |-> en.variables]
    ELSE IF ~has_key(action_params, 1)
    THEN [raised |-> TRUE, error |-> "KeyError", variables |-> en.variables]
    ELSE LET x == act_lookup(action_params, plot).num + 1
             water_to_add == act_lookup(action_params, 1).num
             stock == en.variables.available_Water[x].value.v
             water_after_input == stock + water_to_add
             new_water == Min(en.max_water_plot_capacity, water_after_input)
             water_added_actual == new_water - stock
         IN [raised |-> FALSE, error |-> "",
             variables |->
                 [available_Water |->
                      [en.variables.available_Water EXCEPT ![x] = set_value(@, Num(new_water))],
                  total_cumulated_added_water |->
                      set_value(en.variables.total_cumulated_added_water,
                                Num(en.variables.total_cumulated_added_water.value.v
                                      + water_added_actual))]]

(* Rules.assert_actions: TRUE when no assertion fails.                     *)
assert_actions(allowed, schedule) ==
    \A a \in SeqToSet(schedule) :
        a.kind = "int" =>
            \E w \in SeqToSet(allowed.interventions) :
                /\ w.fa = a.fa /\ w.fi = a.fi /\ w.e = a.e /\ w.a = a.name
                /\ assert_action(w.f_a, a.params)

(* Rules.is_terminal: the episode ends when the water stock of a field is  *)
(* exhausted.                                                              *)
is_terminal(fs) == \E i \in FieldIds : fs[i].water = 0

(***************************************************************************)
(* Scoring collaborator.                                                   *)
(***************************************************************************)
observation_cost(a) == a.fi
intervention_cost(a) == IF a.name = "water" THEN 2 ELSE 3
reward_of(f) == f.water
final_reward_of(f) == 10 + f.day

(***************************************************************************)
(* Farmer collaborator.                                                    *)
(***************************************************************************)
Obs(fa, fi, e, var, path, value) ==
    [fa |-> fa, fi |-> fi, e |-> e, var |-> var, path |-> path, value |-> value]

(* Farmer.perform_observation: reads the variable, changes nothing.        *)
perform_observation(fs, a) ==
    <<Obs(a.fa, a.fi, a.e, a.name, a.path, entity_observe_variable(fs[a.fi], a.name))>>

(* Farmer.perform_intervention: dispatches to the entity's action handler. *)
perform_intervention(fs, a) ==
    [fs EXCEPT ![a.fi] = entity_act_on_variables(fs[a.fi], a.name)]

RECURSIVE perform_interventions(_, _)
perform_interventions(fs, schedule) ==
    IF schedule = <<>> THEN fs
    ELSE perform_interventions(perform_intervention(fs, Head(schedule)), Tail(schedule))

(* The observations Farmer.perform_intervention returns as feedback, read  *)
(* from the entity right after its handler has run: a harvest reports the  *)
(* day, a watering nothing.                                                *)
intervention_feedback(fs, a) ==
    IF a.name = "harvest"
    THEN <<Obs(a.fa, a.fi, a.e, "day", <<>>, entity_observe_variable(fs[a.fi], "day"))>>
    ELSE <<>>

RECURSIVE interventions_feedback(_, _)
interventions_feedback(fs, schedule) ==
    IF schedule = <<>> THEN <<>>
    ELSE LET acted == perform_intervention(fs, Head(schedule))
         IN intervention_feedback(acted, Head(schedule))
              \o interventions_feedback(acted, Tail(schedule))

(***************************************************************************)
(* SimulationCore.  The core state is the record                           *)
(*   [is_observation_time, fields, np_random];                             *)
(* np_random is the state of the generator shared by the core, the fields  *)
(* and their entities.  Every handler returns the new core state together  *)
(* with its output and the trace of collaborator calls it made.            *)
(***************************************************************************)
Ev(ev, id) == [ev |-> ev, id |-> id]

(* Variant: no free observation is gathered.                               *)
get_free_observations_none(free_observations, fs) == <<>>

(* SimulationCore.get_free_observations                                    *)
get_free_observations(free_observations, fs) ==
    [k \in 1..Len(free_observations) |->
        LET fo == free_observations[k]
        IN Obs(fo.fa, fo.fi, fo.e, fo.var, fo.path, entity_observe_variable(fs[fo.fi], fo.var))]

(* Variant: the phase flag is left as it was.                              *)
farmgym_reset_keep_phase(c, free_observations, g) ==
    LET fs == fields_reset(g)
    IN [core |-> [is_observation_time |-> c.is_observation_time, fields |-> fs,
                  np_random |-> rng_after(g, NumFields)],
        observations |-> get_free_observations(free_observations, fs),
        info |-> [k \in {"intervention cost"} |-> 0],
        trace |-> [i \in FieldIds |-> Ev("reset_field", i)] \o <<Ev("free_obs", 0)>>]

(* Variant: the generator in use before the call is kept.                  *)
farmgym_reset_no_reseed(c, free_observations, g) ==
    LET fs == fields_reset(c.np_random)
    IN [core |-> [is_observation_time |-> TRUE, fields |-> fs,
                  np_random |-> rng_after(c.np_random, NumFields)],
        observations |-> get_free_observations(free_observations, fs),
        info |-> [k \in {"intervention cost"} |-> 0],
        trace |-> [i \in FieldIds |-> Ev("reset_field", i)] \o <<Ev("free_obs", 0)>>]

(* SimulationCore.farmgym_reset; g is the generator seeding.np_random made.*)
farmgym_reset(c, free_observations, g) ==
    LET fs == fields_reset(g)
    IN [core |-> [is_observation_time |-> TRUE, fields |-> fs,
                  np_random |-> rng_after(g, NumFields)],
        observations |-> get_free_observations(free_observations, fs),
        info |-> [k \in {"intervention cost"} |-> 0],
        trace |-> [i \in FieldIds |-> Ev("reset_field", i)] \o <<Ev("free_obs", 0)>>]

(* Variant: the observation step also advances the fields to the next day. *)
observation_step_updating(c, observation_schedule) ==
    [core |-> [c EXCEPT !.fields = fields_update_to_next_day(c.fields, c.np_random),
                        !.np_random = rng_after(c.np_random, NumFields)],
     observations |-> FlatSeq([k \in 1..Len(observation_schedule) |->
                                  perform_observation(c.fields, observation_schedule[k])]),
     reward |-> 0, terminated |-> FALSE, truncated |-> FALSE,
     info |-> [key \in {"observation cost"} |->
                 SumSeq([k \in 1..Len(observation_schedule) |->
                            observation_cost(observation_schedule[k])])],
     trace |-> [k \in 1..Len(observation_schedule) |-> Ev("observe", k)]
                 \o [i \in FieldIds |-> Ev("update_field", i)]]

(* Variant: the cost is assigned instead of accumulated.                   *)
observation_step_last_cost(c, observation_schedule) ==
    [core |-> c,
     observations |-> FlatSeq([k \in 1..Len(observation_schedule) |->
                                  perform_observation(c.fields, observation_schedule[k])]),
     reward |-> 0, terminated |-> FALSE, truncated |-> FALSE,
     info |-> [key \in {"observation cost"} |->
                 IF observation_schedule = <<>> THEN 0
                 ELSE observation_cost(observation_schedule[Len(observation_schedule)])],
     trace |-> [k \in 1..Len(observation_schedule) |-> Ev("observe", k)]]

(* SimulationCore._observation_step                                        *)
observation_step(c, observation_schedule) ==
    [core |-> c,
     observations |-> FlatSeq([k \in 1..Len(observation_schedule) |->
                                  perform_observation(c.fields, observation_schedule[k])]),
     reward |-> 0, terminated |-> FALSE, truncated |-> FALSE,
     info |-> [key \in {"observation cost"} |->
                 SumSeq([k \in 1..Len(observation_schedule) |->
                            observation_cost(observation_schedule[k])])],
     trace |-> [k \in 1..Len(observation_schedule) |-> Ev("observe", k)]]

(* Variant: the daily update runs before the interventions are applied.   *)
intervention_step_update_first(c, free_observations, action_schedule) ==
    LET updated == fields_update_to_next_day(c.fields, c.np_random)
        acted == perform_interventions(updated, action_schedule)
        day_reward == SumSeq([i \in FieldIds |-> reward_of(acted[i])])
        terminated == is_terminal(acted)
        final == IF terminated THEN SumSeq([i \in FieldIds |-> final_reward_of(acted[i])]) ELSE 0
    IN [core |-> [c EXCEPT !.fields = acted, !.np_random = rng_after(c.np_random, NumFields)],
        observations |-> get_free_observations(free_observations, acted),
        reward |-> day_reward + final, terminated |-> terminated, truncated |-> FALSE,
        info |-> [key \in {"intervention cost"} |->
                    SumSeq([k \in 1..Len(action_schedule) |->
                               intervention_cost(action_schedule[k])])],
        trace |-> [i \in FieldIds |-> Ev("update_field", i)]
                    \o [i \in FarmerIds |-> Ev("update_farmer", i)]
                    \o [k \in 1..Len(action_schedule) |-> Ev("act", k)]
                    \o <<Ev("reward", 0), Ev("is_terminal", 0)>>
                    \o (IF terminated THEN <<Ev("final_reward", 0)>> ELSE <<>>)
                    \o <<Ev("free_obs", 0)>>]

(* Variant: the termination predicate is evaluated before the daily update.*)
intervention_step_early_terminal(c, free_observations, action_schedule) ==
    LET acted == perform_interventions(c.fields, action_schedule)
        updated == fields_update_to_next_day(acted, c.np_random)
        day_reward == SumSeq([i \in FieldIds |-> reward_of(updated[i])])
        terminated == is_terminal(acted)
        final == IF terminated THEN SumSeq([i \in FieldIds |-> final_reward_of(updated[i])]) ELSE 0
    IN [core |-> [c EXCEPT !.fields = updated, !.np_random = rng_after(c.np_random, NumFields)],
        observations |-> get_free_observations(free_observations, updated),
        reward |-> day_reward + final, terminated |-> terminated, truncated |-> FALSE,
        info |-> [key \in {"intervention cost"} |->
                    SumSeq([k \in 1..Len(action_schedule) |->
                               intervention_cost(action_schedule[k])])],
        trace |-> [k \in 1..Len(action_schedule) |-> Ev("act", k)]
                    \o <<Ev("is_terminal", 0)>>
                    \o [i \in FieldIds |-> Ev("update_field", i)]
                    \o [i \in FarmerIds |-> Ev("update_farmer", i)]
                    \o <<Ev("reward", 0)>>
                    \o (IF terminated THEN <<Ev("final_reward", 0)>> ELSE <<>>)
                    \o <<Ev("free_obs", 0)>>]

(* Variant: the final reward is added on every day, terminal or not.       *)
intervention_step_final_always(c, free_observations, action_schedule) ==
    LET acted == perform_interventions(c.fields, action_schedule)
        updated == fields_update_to_next_day(acted, c.np_random)
        day_reward == SumSeq([i \in FieldIds |-> reward_of(updated[i])])
        terminated == is_terminal(updated)
        final == SumSeq([i \in FieldIds |-> final_reward_of(updated[i])])
    IN [core |-> [c EXCEPT !.fields = updated, !.np_random = rng_after(c.np_random, NumFields)],
        observations |-> get_free_observations(free_observations, updated),
        reward |-> day_reward + final, terminated |-> terminated, truncated |-> FALSE,
        info |-> [key \in {"intervention cost"} |->
                    SumSeq([k \in 1..Len(action_schedule) |->
                               intervention_cost(action_schedule[k])])],
        trace |-> [k \in 1..Len(action_schedule) |-> Ev("act", k)]
                    \o [i \in FieldIds |-> Ev("update_field", i)]
                    \o [i \in FarmerIds |-> Ev("update_farmer", i)]
                    \o <<Ev("reward", 0), Ev("is_terminal", 0), Ev("final_reward", 0)>>
                    \o <<Ev("free_obs", 0)>>]

(* SimulationCore._intervention_step                                       *)
intervention_step(c, free_observations, action_schedule) ==
    LET acted == perform_interventions(c.fields, action_schedule)
        updated == fields_update_to_next_day(acted, c.np_random)
        day_reward == SumSeq([i \in FieldIds |-> reward_of(updated[i])])
        terminated == is_terminal(updated)
        final == IF terminated THEN SumSeq([i \in FieldIds |-> final_reward_of(updated[i])]) ELSE 0
    IN [core |-> [c EXCEPT !.fields = updated, !.np_random = rng_after(c.np_random, NumFields)],
        observations |-> interventions_feedback(c.fields, action_schedule)
                           \o get_free_observations(free_observations, updated),
        reward |-> day_reward + final, terminated |-> terminated, truncated |-> FALSE,
        info |-> [key \in {"intervention cost"} |->
                    SumSeq([k \in 1..Len(action_schedule) |->
                               intervention_cost(action_schedule[k])])],
        trace |-> [k \in 1..Len(action_schedule) |-> Ev("act", k)]
                    \o [i \in FieldIds |-> Ev("update_field", i)]
                    \o [i \in FarmerIds |-> Ev("update_farmer", i)]
                    \o <<Ev("reward", 0), Ev("is_terminal", 0)>>
                    \o (IF terminated THEN <<Ev("final_reward", 0)>> ELSE <<>>)
                    \o <<Ev("free_obs", 0)>>]

(* Variant: the intervention branch does not set the phase back.          *)
farmgym_step_no_flip(c, allowed, free_observations, action_schedule) ==
    LET filtered_action_schedule == filter_actions(allowed, action_schedule, c.is_observation_time)
    IN IF ~assert_actions(allowed, filtered_action_schedule)
       THEN [raised |-> TRUE, phase |-> "none", filtered |-> filtered_action_schedule, core |-> c,
             observations |-> <<>>, reward |-> 0, terminated |-> FALSE, truncated |-> FALSE,
             info |-> <<>>, trace |-> <<>>]
       ELSE IF c.is_observation_time
       THEN LET output == observation_step(c, filtered_action_schedule)
            IN [raised |-> FALSE, phase |-> "observe", filtered |-> filtered_action_schedule,
                core |-> [output.core EXCEPT !.is_observation_time = FALSE],
                observations |-> output.observations, reward |-> output.reward,
                terminated |-> output.terminated, truncated |-> output.truncated,
                info |-> output.info, trace |-> output.trace]
       ELSE LET output == intervention_step(c, free_observations, filtered_action_schedule)
            IN [raised |-> FALSE, phase |-> "intervene", filtered |-> filtered_action_schedule,
                core |-> output.core,
                observations |-> output.observations, reward |-> output.reward,
                terminated |-> output.terminated, truncated |-> output.truncated,
                info |-> output.info, trace |-> output.trace]

(* SimulationCore.farmgym_step; raised = TRUE when assert_actions fails,   *)
(* and then nothing has been assigned.                                     *)
farmgym_step(c, allowed, free_observations, action_schedule) ==
    LET filtered_action_schedule == filter_actions(allowed, action_schedule, c.is_observation_time)
    IN IF ~assert_actions(allowed, filtered_action_schedule)
       THEN [raised |-> TRUE, phase |-> "none", filtered |-> filtered_action_schedule, core |-> c,
             observations |-> <<>>, reward |-> 0, terminated |-> FALSE, truncated |-> FALSE,
             info |-> <<>>, trace |-> <<>>]
       ELSE IF c.is_observation_time
       THEN LET output == observation_step(c, filtered_action_schedule)
            IN [raised |-> FALSE, phase |-> "observe", filtered |-> filtered_action_schedule,
                core |-> [output.core EXCEPT !.is_observation_time = FALSE],
                observations |-> output.observations, reward |-> output.reward,
                terminated |-> output.terminated, truncated |-> output.truncated,
                info |-> output.info, trace |-> output.trace]
       ELSE LET output == intervention_step(c, free_observations, filtered_action_schedule)
            IN [raised |-> FALSE, phase |-> "intervene", filtered |-> filtered_action_schedule,
                core |-> [output.core EXCEPT !.is_observation_time = TRUE],
                observations |-> output.observations, reward |-> output.reward,
                terminated |-> output.terminated, truncated |-> output.truncated,
                info |-> output.info, trace |-> output.trace]


(* Range.gym_value of a Range over an interval: the list [value].          *)
gym_value(value) == <<value>>

(* Entity_API.gym_observe_variable                                         *)
entity_gym_observe_variable(f, variable_key) ==
    gym_value(IF variable_key = "day" THEN f.day ELSE f.water)

(* ActionConverter.farmgym_to_gym_observations: one output per tuple, the  *)
(* value read again from the entity.                                       *)
farmgym_to_gym_observations(fs, farmgym_observations) ==
    [k \in 1..Len(farmgym_observations) |->
        LET fo == farmgym_observations[k]
        IN Obs(fo.fa, fo.fi, fo.e, fo.var, fo.path,
               entity_gym_observe_variable(fs[fo.fi], fo.var))]

(***************************************************************************)
(* State.                                                                  *)
(***************************************************************************)
VARIABLES
    interaction_mode,      \* Farm.interaction_mode
    actions_allowed,       \* rules.actions_allowed
    free_observations,     \* rules.free_observations
    space_builder,         \* Farm.space_builder
    is_observation_time,   \* SimulationCore.is_observation_time
    fields,                \* the variable trees of the fields' entities
    np_random,             \* the generator of the core, the fields and the entities
    history,               \* StateManager.history
    output,                \* what the last call returned (or that it raised)
    calls,                 \* the farmgym_step calls the last call made, in order
    episode,               \* bookkeeping of the current episode
    twin,                  \* a second run of the same farm configuration
    conv,                  \* the last call of the action converter alone
    api                    \* a Range object and the last entity construction

vars == <<interaction_mode, actions_allowed, free_observations, space_builder,
          is_observation_time, fields, np_random, history, output, calls, episode,
          twin, conv, api>>

config == <<interaction_mode, actions_allowed, free_observations, space_builder>>

Core == [is_observation_time |-> is_observation_time, fields |-> fields, np_random |-> np_random]

SetCore(c) ==
    /\ is_observation_time' = c.is_observation_time
    /\ fields' = c.fields
    /\ np_random' = c.np_random

Call(r, schedule) ==
    [phase |-> r.phase, raised |-> r.raised, filtered |-> r.filtered,
     dropped |-> Len(schedule) - Len(r.filtered),
     trace |-> r.trace, info |-> r.info, terminated |-> r.terminated]

NoOutput ==
    [call |-> "none", raised |-> FALSE, observations |-> <<>>, farmgym_observations |-> <<>>,
     reward |-> 0, terminated |-> FALSE, truncated |-> FALSE, info |-> <<>>]

NewEpisode ==
    [last_phase |-> "none", terminal_steps |-> 0, steps_after_terminal |-> 0,
     final_rewards |-> 0, updates_after_terminal |-> 0, direct |-> FALSE]

CountEv(trace, ev) == Cardinality({i \in 1..Len(trace) : trace[i].ev = ev})

(* Bookkeeping of one farmgym_step call r: the phase the last returning    *)
(* call executed, the intervention steps that returned terminated = True,  *)
(* the intervention steps executed after the first of them, the final      *)
(* rewards added, and the field updates run after the first terminal step. *)
episode_after(ep, r) ==
    IF r.raised THEN ep
    ELSE [last_phase |-> r.phase,
          terminal_steps |-> ep.terminal_steps + (IF r.terminated THEN 1 ELSE 0),
          steps_after_terminal |-> ep.steps_after_terminal
              + (IF ep.terminal_steps > 0 /\ r.phase = "intervene" THEN 1 ELSE 0),
          final_rewards |-> ep.final_rewards + CountEv(r.trace, "final_reward"),
          updates_after_terminal |-> ep.updates_after_terminal
              + (IF ep.terminal_steps > 0 THEN CountEv(r.trace, "update_field") ELSE 0),
          direct |-> ep.direct]

RECURSIVE episode_after_calls(_, _)
episode_after_calls(ep, cs) ==
    IF cs = <<>> THEN ep ELSE episode_after_calls(episode_after(ep, Head(cs)), Tail(cs))

(* What a run shows to its caller.                                         *)
Trajectory(o) ==
    [raised |-> o.raised, observations |-> o.observations,
     farmgym_observations |-> o.farmgym_observations, reward |-> o.reward,
     terminated |-> o.terminated, truncated |-> o.truncated, info |-> o.info]

(* Inputs.                                                                 *)
SeqsUpTo(S, n) == UNION {[1..m -> S] : m \in 0..n}

block_start(sb, k) ==
    Len(sb.farmgym_observation_actions)
      + SumSeq([m \in 1..(k - 1) |-> sb.farmgym_intervention_actions[m].ng])

(* Action lists tried by the agent: lists of indices of the flat space    *)
(* (index 0 and the first index of every block), and the two indices next  *)
(* to the flat space, -1 and its size, alone.                              *)
GymIndices ==
    {i \in {0} \cup {block_start(space_builder, k) :
                        k \in 1..Len(space_builder.farmgym_intervention_actions)} :
        i < build_gym_discretized_action_space(space_builder)}

GymActions ==
    SeqsUpTo(GymIndices, MaxSchedule)
      \cup {<<-1>>, <<build_gym_discretized_action_space(space_builder)>>}

(* Structured actions passed to farmgym_step directly: the first allowed   *)
(* observation, the first intervention of the catalog, the same with a     *)
(* parameter outside its range, and an intervention no entity declares.    *)
FarmgymActions ==
    {ObsAction(actions_allowed.observations[k]) :
         k \in 1..Min(1, Len(actions_allowed.observations))}
      \cup {decode_index(space_builder, block_start(space_builder, 1)).acts[1]}
      \cup {LET en == space_builder.farmgym_intervention_actions[1]
             IN IntAction(en.fa, en.fi, en.e, en.a, <<Param(0, Rat(99, 1))>>),
            IntAction(1, 1, "Soil-0", "plough", <<>>)}

FarmgymSchedules == SeqsUpTo(FarmgymActions, MaxDirect)

DayOpenIn(fs) == \A i \in FieldIds : fs[i].day < MaxDay
DayOpen == DayOpenIn(fields)

(* The core as SimulationCore.initialize_state leaves it, entities seeded  *)
(* with generator g.                                                       *)
initialize_state(g) ==
    [is_observation_time |-> TRUE, fields |-> [i \in FieldIds |-> entity_init], np_random |-> g]

NoTwin == [core |-> initialize_state(0), output |-> Trajectory(NoOutput),
           fresh |-> NoSeed, again |-> FALSE, synced |-> FALSE]

(* Generator.integers(n): a number below n, a function of the generator's  *)
(* state.                                                                  *)
integers(g, n) == g % n

(* ActionConverter.random_allowed_observation: none = TRUE stands for the  *)
(* returned None; the generator is used when the catalog is not empty.     *)
random_allowed_observation(sb, g) ==
    LET obs_actions == sb.farmgym_observation_actions
    IN IF Len(obs_actions) = 0
       THEN [ok |-> TRUE, none |-> TRUE, result |-> <<>>, np_random |-> g]
       ELSE [ok |-> TRUE, none |-> FALSE,
             result |-> <<obs_actions[integers(g, Len(obs_actions)) + 1]>>,
             np_random |-> rng_next(g)]

(* The values gym_space.sample() can return: a sequence of (key, value) in *)
(* the order of the space's keys for a Dict space, one value under key 0   *)
(* otherwise; a Box space is sampled at its two ends and in its middle.    *)
sample_axis(space) ==
    IF space.type = "Box"
    THEN {Rat(space.low, 1), Rat(space.low + space.high, 2), Rat(space.high, 1)}
    ELSE {Rat(j, 1) : j \in 0..(space.n - 1)}

sample(gym_space) ==
    IF gym_space.type = "Dict"
    THEN {o \in [1..Len(gym_space.spaces) -> [key : {sp.key : sp \in SeqToSet(gym_space.spaces)},
                                               val : UNION {sample_axis(sp.space) :
                                                               sp \in SeqToSet(gym_space.spaces)}]] :
             \A i \in 1..Len(gym_space.spaces) :
                 /\ o[i].key = gym_space.spaces[i].key
                 /\ o[i].val \in sample_axis(gym_space.spaces[i].space)}
    ELSE {<<Param(0, v)>> : v \in sample_axis(gym_space)}

(* ActionConverter.random_allowed_intervention, o the value sampled from   *)
(* the entry's gym space: the parameters are converted when the schema is  *)
(* a mapping, and are the empty mapping otherwise.                         *)
random_allowed_intervention(sb, g, o) ==
    LET n == integers(g, Len(sb.farmgym_intervention_actions))
        en == sb.farmgym_intervention_actions[n + 1]
    IN [ok |-> TRUE, none |-> FALSE,
        result |-> <<IntAction(en.fa, en.fi, en.e, en.a,
                               IF en.f_a.type = "dict" THEN convert_param(o, en.f_a) ELSE <<>>)>>,
        np_random |-> rng_next(g)]

NoRandom == [done |-> FALSE, kind |-> "", ok |-> TRUE, none |-> FALSE, result |-> <<>>]
NoEncoded == [done |-> FALSE, ok |-> TRUE, ii |-> <<>>, back |-> [ok |-> TRUE, acts |-> <<>>]]
NoRange == [raised |-> TRUE, range |-> ListRange(<<>>), default_value |-> None, value |-> None]
NoEntity == [tried |-> FALSE, is_str |-> FALSE, name |-> "", keys |-> {},
             built |-> FALSE, parameters |-> {}]
NoSoil ==
    [en |-> Soil(<<>>, 0, 0),
     last |-> [done |-> FALSE, action_name |-> "", action_params |-> <<>>, raised |-> FALSE,
               error |-> "", before |-> Soil(<<>>, 0, 0).variables]]
NoApi == [ranged |-> NoRange, writes |-> 0, last |-> None, before |-> None, entity |-> NoEntity,
          soil |-> NoSoil,
          catalog |-> [done |-> FALSE, dictio |-> <<>>, raised |-> FALSE, actions |-> <<>>],
          grid |-> [cells |-> <<>>, objects |-> <<>>, done |-> FALSE, i |-> 0, before |-> <<>>]]
NoConv == [actions |-> <<>>, decoded |-> [ok |-> TRUE, acts |-> <<>>], encoded |-> NoEncoded,
           random |-> NoRandom]

(***************************************************************************)
(* Farm construction: Farm.__init__ builds the spaces and the state        *)
(* manager; SimulationCore.initialize_state sets the observe phase.  The   *)
(* entities are constructed with their generator seeded by Farm.seed.      *)
(***************************************************************************)
InitFarm(farms) ==
    /\ \E farm \in farms :
          /\ interaction_mode = farm.mode
          /\ actions_allowed = farm.allowed
    /\ free_observations = build_free_observations(actions_allowed)
    /\ space_builder = SpaceBuilder(actions_allowed, interaction_mode)
    /\ \E s \in Seeds \cup {NoSeed} :
          \E g \in seeding_np_random(s) :
             /\ is_observation_time = initialize_state(g).is_observation_time
             /\ fields = initialize_state(g).fields
             /\ np_random = initialize_state(g).np_random
    /\ history = {}
    /\ output = NoOutput
    /\ calls = <<>>
    /\ episode = NewEpisode

Init ==
    /\ InitFarm(Farms)
    /\ twin = NoTwin
    /\ conv = NoConv
    /\ api = NoApi

(***************************************************************************)
(* Farm.reset -> StateManager.reset -> SimulationCore.farmgym_reset, as a  *)
(* function of the core and of the generator seeding.np_random returned.   *)
(***************************************************************************)
state_manager_reset(c, g) ==
    LET r == farmgym_reset(c, free_observations, g)
    IN [core |-> r.core,
        output |-> [call |-> "reset", raised |-> FALSE,
                    observations |-> farmgym_to_gym_observations(r.core.fields, r.observations),
                    farmgym_observations |-> r.observations,
                    reward |-> 0, terminated |-> FALSE, truncated |-> FALSE,
                    info |-> [k \in {"intervention cost", "farmgym observations"} |->
                                 IF k = "intervention cost" THEN 0 ELSE r.observations]],
        calls |-> <<[phase |-> "reset", raised |-> FALSE, filtered |-> <<>>, dropped |-> 0,
                     trace |-> r.trace, info |-> r.info, terminated |-> FALSE]>>]

(* The first run takes the result s of a reset; output.before keeps what   *)
(* the reset found.                                                        *)
TakeReset(s) ==
    /\ SetCore(s.core)
    /\ history' = {}
    /\ output' = [call |-> s.output.call, raised |-> s.output.raised,
                  observations |-> s.output.observations,
                  farmgym_observations |-> s.output.farmgym_observations,
                  reward |-> s.output.reward, terminated |-> s.output.terminated,
                  truncated |-> s.output.truncated, info |-> s.output.info,
                  before |-> [is_observation_time |-> is_observation_time,
                              history |-> history,
                              terminal_steps |-> episode.terminal_steps]]
    /\ calls' = s.calls
    /\ episode' = NewEpisode
    /\ UNCHANGED config

Reset(seed) ==
    \E g \in seeding_np_random(seed) : TakeReset(state_manager_reset(Core, g))

Raised(call) == [NoOutput EXCEPT !.call = call, !.raised = TRUE]

Returned(call, fs, r) ==
    [call |-> call, raised |-> FALSE,
     observations |-> farmgym_to_gym_observations(fs, r.observations),
     farmgym_observations |-> r.observations,
     reward |-> r.reward, terminated |-> r.terminated, truncated |-> r.truncated,
     info |-> r.info]

(***************************************************************************)
(* A direct call of SimulationCore.farmgym_step (run_policy_xp).           *)
(***************************************************************************)
FarmgymStep(action_schedule) ==
    /\ DayOpen
    /\ LET r == farmgym_step(Core, actions_allowed, free_observations, action_schedule)
       IN /\ SetCore(r.core)
          /\ output' = IF r.raised THEN Raised("farmgym_step")
                       ELSE [Returned("farmgym_step", r.core.fields, r)
                                EXCEPT !.observations = r.observations]
          /\ calls' = <<Call(r, action_schedule)>>
          /\ episode' = [episode_after(episode, r) EXCEPT !.direct = TRUE]
    /\ UNCHANGED <<history, config>>

(***************************************************************************)
(* StateManager.gym_step_AOMDP: the argument is decoded, then one          *)
(* farmgym_step call is made.                                              *)
(***************************************************************************)
gym_step_AOMDP(c, gym_action) ==
    LET decoded == gymaction_to_discretized_farmgymaction(space_builder, gym_action)
    IN IF ~decoded.ok
       THEN [core |-> c, output |-> Raised("step"), calls |-> <<>>]
       ELSE LET r == farmgym_step(c, actions_allowed, free_observations, decoded.acts)
            IN [core |-> r.core,
                output |-> IF r.raised THEN Raised("step") ELSE Returned("step", r.core.fields, r),
                calls |-> <<Call(r, decoded.acts)>>]

(***************************************************************************)
(* StateManager.gym_step_POMDP: farmgym_step([]) is called first; the      *)
(* agent's action is decoded after it, as the argument of the second call. *)
(***************************************************************************)
gym_step_POMDP(c, gym_action) ==
    LET r1 == farmgym_step(c, actions_allowed, free_observations, <<>>)
        decoded == gymaction_to_discretized_farmgymaction(space_builder, gym_action)
        r2 == farmgym_step(r1.core, actions_allowed, free_observations, decoded.acts)
    IN IF ~decoded.ok
       THEN [core |-> r1.core, output |-> Raised("step"), calls |-> <<Call(r1, <<>>)>>]
       ELSE [core |-> r2.core,
             output |-> IF r2.raised THEN Raised("step") ELSE Returned("step", r2.core.fields, r2),
             calls |-> <<Call(r1, <<>>), Call(r2, decoded.acts)>>]

(* StateManager.step                                                       *)
state_manager_step(c, gym_action) ==
    IF interaction_mode = "POMDP" THEN gym_step_POMDP(c, gym_action)
    ELSE gym_step_AOMDP(c, gym_action)

(* Farm.step                                                               *)
TakeStep(s) ==
    /\ SetCore(s.core)
    /\ output' = s.output
    /\ calls' = s.calls
    /\ episode' = episode_after_calls(episode, s.calls)
    /\ UNCHANGED <<history, config>>

Step(gym_action) ==
    /\ DayOpen
    /\ TakeStep(state_manager_step(Core, gym_action))

(***************************************************************************)
(* FarmRenderer.render_json: stores a snapshot in the history under the    *)
(* current day.                                                            *)
(***************************************************************************)
RenderJson ==
    /\ history' = history \cup {IF is_observation_time THEN fields[1].day ELSE fields[1].day - 1}
    /\ history' # history
    /\ output' = [NoOutput EXCEPT !.call = "render"]
    /\ calls' = <<>>
    /\ UNCHANGED <<is_observation_time, fields, np_random, episode, config>>

Next ==
    \/ \E seed \in Seeds \cup {NoSeed} : Reset(seed) /\ UNCHANGED <<twin, conv, api>>
    \/ \E gym_action \in GymActions : Step(gym_action) /\ UNCHANGED <<twin, conv, api>>
    \/ \E action_schedule \in FarmgymSchedules :
          FarmgymStep(action_schedule) /\ UNCHANGED <<twin, conv, api>>
    \/ RenderJson /\ UNCHANGED <<twin, conv, api>>

Spec == Init /\ [][Next]_vars

(***************************************************************************)
(* Two runs of one farm configuration.  The second run (twin) is reset and *)
(* stepped together with the first, or stays where it is while the first   *)
(* is reset or stepped alone.  twin.fresh is the seed of the twin's last   *)
(* reset while it has not stepped since; twin.synced tells that both runs  *)
(* last passed the same seed to reset and have received the same action    *)
(* lists since; twin.again that the first run was then reset once more     *)
(* with that seed before stepping.  The runs are stepped together only     *)
(* while they are in step; a run that fell out of step is a run whose      *)
(* earlier history differs, which the next common reset must erase.        *)
(***************************************************************************)
InitTwin ==
    /\ InitFarm(Farms)
    /\ \E g \in seeding_np_random(NoSeed) : twin = [NoTwin EXCEPT !.core = initialize_state(g)]
    /\ conv = NoConv
    /\ api = NoApi

TwinActions == {a \in GymActions : Len(a) <= 1}

(* reset(seed) on the first run and, when together, on the twin: each run  *)
(* gets its own generator from seeding.np_random(seed).                    *)
ResetRuns(seed, together) ==
    \E gs \in [1..2 -> seeding_np_random(seed)] :
        LET rs == [r \in 1..2 |->
                      state_manager_reset(IF r = 1 THEN Core ELSE twin.core, gs[r])]
        IN /\ (~together) => gs[2] = gs[1]
           /\ TakeReset(rs[1])
           /\ twin' = IF together
                      THEN [core |-> rs[2].core, output |-> Trajectory(rs[2].output),
                            fresh |-> seed, again |-> FALSE, synced |-> seed # NoSeed]
                      ELSE [twin EXCEPT
                              !.synced = (seed # NoSeed /\ twin.fresh = seed),
                              !.again = (seed # NoSeed /\ twin.fresh = seed /\ twin.synced)]
           /\ UNCHANGED <<conv, api>>

(* step(gym_action) on the first run and, when together, on the twin.      *)
StepRuns(gym_action, together) ==
    /\ DayOpen
    /\ together => (twin.synced /\ DayOpenIn(twin.core.fields))
    /\ LET rs == [r \in 1..2 |->
                     state_manager_step(IF r = 1 THEN Core ELSE twin.core, gym_action)]
       IN /\ TakeStep(rs[1])
          /\ twin' = IF together
                     THEN [twin EXCEPT !.core = rs[2].core,
                                       !.output = Trajectory(rs[2].output),
                                       !.fresh = NoSeed]
                     ELSE [twin EXCEPT !.synced = FALSE, !.again = FALSE]
    /\ UNCHANGED <<conv, api>>

NextTwin ==
    \/ \E seed \in Seeds \cup {NoSeed} : \E together \in BOOLEAN : ResetRuns(seed, together)
    \/ \E gym_action \in TwinActions : \E together \in BOOLEAN : StepRuns(gym_action, together)

SpecTwin == InitTwin /\ [][NextTwin]_vars

(***************************************************************************)
(* The action converter alone, over a family of catalogs: up to three      *)
(* observations, up to NumFields interventions (the k-th on field k) with  *)
(* any of the four schema shapes, with and without a declared number of    *)
(* bins.                                                                   *)
(***************************************************************************)
ConvSchemas ==
    {Schema(LeafBox(0, 20)), Schema(LeafList(<<0, 1>>)), Schema(LeafNone), SchemaPlotAmount}

ConvWhitelists ==
    {[observations |-> SubSeq(Whitelists[1].observations, 1, o),
      free |-> <<>>,
      interventions |-> [k \in 1..Len(fs) |-> IntEntry(1, k, "water", fs[k])],
      nbins |-> b] :
        o \in 0..Len(Whitelists[1].observations),
        fs \in SeqsUpTo(ConvSchemas, NumFields),
        b \in {0, 2}}

ConvFarms == {[allowed |-> w, mode |-> "AOMDP"] : w \in ConvWhitelists \cup {Whitelists[3]}}

InitConv ==
    /\ InitFarm(ConvFarms)
    /\ twin = NoTwin
    /\ conv = NoConv
    /\ api = NoApi

ConvIndices ==
    (-(Len(space_builder.farmgym_observation_actions) + 1))
        ..build_gym_discretized_action_space(space_builder)

(* Variant: the decoding empties the observation catalog.                  *)
Decode_clearing(actions) ==
    /\ conv' = [actions |-> actions,
                decoded |-> gymaction_to_discretized_farmgymaction(space_builder, actions),
                encoded |-> NoEncoded, random |-> NoRandom]
    /\ space_builder' = [space_builder EXCEPT !.farmgym_observation_actions = <<>>]
    /\ UNCHANGED <<interaction_mode, actions_allowed, free_observations, is_observation_time,
                   fields, np_random, history, output, calls, episode, twin, api>>

Decode(actions) ==
    /\ conv' = [actions |-> actions,
                decoded |-> gymaction_to_discretized_farmgymaction(space_builder, actions),
                encoded |-> NoEncoded, random |-> NoRandom]
    /\ UNCHANGED <<config, is_observation_time, fields, np_random, history, output, calls,
                   episode, twin, api>>

(* The structured actions just decoded are encoded, and the indices the    *)
(* encoding returns are decoded again.                                     *)
Encode ==
    /\ conv.actions # <<>>
    /\ conv.decoded.ok
    /\ LET enc == discretized_farmgymaction_to_gymaction(space_builder, conv.decoded.acts)
       IN conv' = [conv EXCEPT !.encoded =
                      [done |-> TRUE, ok |-> enc.ok, ii |-> enc.ii,
                       back |-> IF enc.ok
                                THEN gymaction_to_discretized_farmgymaction(space_builder, enc.ii)
                                ELSE [ok |-> FALSE, acts |-> <<>>]]]
    /\ UNCHANGED <<config, is_observation_time, fields, np_random, history, output, calls,
                   episode, twin, api>>

NextConv ==
    \/ \E i \in ConvIndices : Decode(<<i>>)
    \/ Encode

SpecConv == InitConv /\ [][NextConv]_vars

(***************************************************************************)
(* The action converter over catalogs whose parameter schemas take every   *)
(* shape an entity may declare, a mapping that holds a mapping included.   *)
(***************************************************************************)
SchemaNested ==
    SchemaDict(<<Item(1, LeafList(<<0, 1>>)),
                 Item(2, SchemaDict(<<Item(1, LeafList(<<0, 1, 2>>))>>))>>)

SchemaBoxAmount ==
    SchemaDict(<<Item(1, LeafBox(0, 20)),
                 Item(2, LeafList(<<TupleString(0), TupleString(1)>>))>>)

ShapeSchemas == ConvSchemas \cup {SchemaNested, SchemaBoxAmount}

ShapeWhitelists ==
    {[observations |-> SubSeq(Whitelists[1].observations, 1, o),
      free |-> <<>>,
      interventions |-> [k \in 1..Len(fs) |-> IntEntry(1, k, "water", fs[k])],
      nbins |-> b] :
        o \in {0, 1},
        fs \in SeqsUpTo(ShapeSchemas, NumFields),
        b \in {0, 2}}

ShapeFarms == {[allowed |-> w, mode |-> "AOMDP"] : w \in ShapeWhitelists}

InitShape ==
    /\ InitFarm(ShapeFarms)
    /\ np_random = np_random_of(0)
    /\ twin = NoTwin
    /\ conv = NoConv
    /\ api = NoApi

NextShape == \E i \in ConvIndices : Decode(<<i>>)

SpecShape == InitShape /\ [][NextShape]_vars

(***************************************************************************)
(* The random choice of an allowed action, over catalogs whose schemas are *)
(* an interval, a list, None or a mapping.                                 *)
(***************************************************************************)
RandomWhitelists ==
    {[observations |-> SubSeq(Whitelists[1].observations, 1, o),
      free |-> <<>>,
      interventions |-> [k \in 1..Len(fs) |-> IntEntry(1, k, "water", fs[k])],
      nbins |-> 0] :
        o \in {0, 2},
        fs \in SeqsUpTo(ConvSchemas \cup {SchemaBoxAmount}, NumFields) \ {<<>>}}

InitRandom ==
    /\ InitFarm({[allowed |-> w, mode |-> "AOMDP"] : w \in RandomWhitelists})
    /\ twin = NoTwin
    /\ conv = NoConv
    /\ api = NoApi

RandomFrame ==
    UNCHANGED <<config, is_observation_time, fields, history, output, calls, episode, twin, api>>

RandomAllowedObservation ==
    /\ LET r == random_allowed_observation(space_builder, np_random)
       IN /\ conv' = [NoConv EXCEPT !.random =
                         [done |-> TRUE, kind |-> "observation", ok |-> r.ok, none |-> r.none,
                          result |-> r.result]]
          /\ np_random' = r.np_random
    /\ RandomFrame

RandomAllowedIntervention ==
    /\ \E o \in sample(space_builder.farmgym_intervention_actions[
                      integers(np_random, Len(space_builder.farmgym_intervention_actions)) + 1].g) :
          LET r == random_allowed_intervention(space_builder, np_random, o)
          IN /\ conv' = [NoConv EXCEPT !.random =
                            [done |-> TRUE, kind |-> "intervention", ok |-> r.ok, none |-> r.none,
                             result |-> r.result]]
             /\ np_random' = r.np_random
    /\ RandomFrame

NextRandom ==
    \/ RandomAllowedObservation
    \/ RandomAllowedIntervention

SpecRandom == InitRandom /\ [][NextRandom]_vars

(***************************************************************************)
(* Every call that reads the catalogs, on the farms of the stepping        *)
(* protocol: reset, step (which decodes its argument and encodes the       *)
(* observations it returns), decoding, encoding and the two random         *)
(* choices.  conv holds the result of the last call of the converter made  *)
(* outside a step.                                                         *)
(***************************************************************************)
InitReadOnly ==
    /\ InitFarm({[allowed |-> Whitelists[k], mode |-> m] :
                    k \in {1, 2}, m \in {"AOMDP", "POMDP"}})
    /\ np_random = np_random_of(0)
    /\ twin = NoTwin
    /\ conv = NoConv
    /\ api = NoApi

NextReadOnly ==
    \/ \E seed \in Seeds : Reset(seed) /\ conv' = NoConv /\ UNCHANGED <<twin, api>>
    \/ \E gym_action \in {a \in GymActions : Len(a) = 1} :
          Step(gym_action) /\ conv' = NoConv /\ UNCHANGED <<twin, api>>
    \/ \E i \in ConvIndices : Decode(<<i>>)
    \/ Encode
    \/ RandomAllowedObservation
    \/ RandomAllowedIntervention

SpecReadOnly == InitReadOnly /\ [][NextReadOnly]_vars

(***************************************************************************)
(* The entity interface alone: Range objects are constructed and written,  *)
(* entities are constructed from a mapping or from the name of a           *)
(* specification file.                                                     *)
(***************************************************************************)
MaxReal == 3
MaxWrites == 2

Values == {Num(v) : v \in (-1)..MaxReal} \cup {Str(1), None}
Ranges ==
    {TupleRange(0, 2), TupleRange(1, 1),
     ListRange(<<Num(1), Num(2)>>), ListRange(<<Str(1), Num(0)>>), ListRange(<<>>)}

ParameterSets ==
    {[is_str |-> FALSE, name |-> "", keys |-> ks] : ks \in SUBSET {1, 2, 3}}
      \cup {[is_str |-> TRUE, name |-> nm, keys |-> {}] : nm \in {"base", "dry", "none"}}

InitApi ==
    /\ InitFarm({[allowed |-> Whitelists[3], mode |-> "AOMDP"]})
    /\ twin = NoTwin
    /\ conv = NoConv
    /\ api = NoApi

ApiFrame ==
    UNCHANGED <<config, is_observation_time, fields, np_random, history, output, calls,
                episode, twin, conv>>

NewRange(range, value) ==
    /\ api' = [api EXCEPT !.ranged = Range(range, value), !.writes = 0,
                           !.last = None, !.before = None]
    /\ ApiFrame

SetValue(value) ==
    /\ ~api.ranged.raised
    /\ api.writes < MaxWrites
    /\ api' = [api EXCEPT !.ranged = set_value(api.ranged, value), !.writes = @ + 1,
                           !.last = value, !.before = api.ranged.value]
    /\ ApiFrame

NewEntity(parameters) ==
    /\ LET en == Entity_API(parameters)
       IN api' = [api EXCEPT !.entity =
                     [tried |-> TRUE, is_str |-> parameters.is_str, name |-> parameters.name,
                      keys |-> parameters.keys, built |-> en.built, parameters |-> en.parameters]]
    /\ ApiFrame

NextApi ==
    \/ \E range \in Ranges, value \in Values : NewRange(range, value)
    \/ \E value \in Values : SetValue(value)
    \/ \E parameters \in ParameterSets : NewEntity(parameters)

SpecApi == InitApi /\ [][NextApi]_vars

(***************************************************************************)
(* The soil entity alone: its action handler is called with declared and   *)
(* undeclared action names, parameter keys and parameter values.           *)
(***************************************************************************)
MaxCapacity == 2

ActParams ==
    {amount \o plt \o extra :
        amount \in {<<>>} \cup {<<Param(1, Rat(n, 1))>> : n \in (-1)..MaxReal},
        plt \in {<<>>} \cup {<<Param(plot, yml_tuple_constructor(TupleString(p)))>> : p \in 0..2}
                       \cup {<<Param(plot, Rat(TupleString(0), 1))>>},
        extra \in {<<>>, <<Param(2, Rat(0, 1))>>}}

InitAct ==
    /\ InitFarm({[allowed |-> Whitelists[3], mode |-> "AOMDP"]})
    /\ np_random = np_random_of(0)
    /\ twin = NoTwin
    /\ conv = NoConv
    /\ api = [NoApi EXCEPT !.soil =
                 [en |-> Soil(<<TupleString(0), TupleString(1)>>, MaxReal - 1, MaxCapacity),
                  last |-> NoSoil.last]]

ActOnVariables(action_name, action_params) ==
    /\ LET r == act_on_variables(api.soil.en, action_name, action_params)
       IN api' = [api EXCEPT !.soil =
                     [en |-> [api.soil.en EXCEPT !.variables = r.variables],
                      last |-> [done |-> TRUE, action_name |-> action_name,
                                action_params |-> action_params, raised |-> r.raised,
                                error |-> r.error, before |-> api.soil.en.variables]]]
    /\ ApiFrame

NextAct ==
    \E action_name \in {"water_discrete", "water_continuous", "plough"},
       action_params \in ActParams :
        ActOnVariables(action_name, action_params)

SpecAct == InitAct /\ [][NextAct]_vars

(***************************************************************************)
(* Construction of the observation catalog from the whitelist of one       *)
(* variable.  A whitelist node is None, a list of keys or a mapping from   *)
(* keys to nodes; the key Star is the wildcard "*".  The live variable     *)
(* tree is given by the paths of its leaves.                               *)
(***************************************************************************)
Star == 0
Sel(t, keys, items) == [t |-> t, keys |-> keys, items |-> items]

VariableLeaves == {<<1>>, <<2, 1>>, <<2, 2>>}

(* The keys of variables[...] at the node the prefix leads to.             *)
children(leaves, prefix) ==
    {l[Len(prefix) + 1] : l \in {m \in leaves : /\ Len(m) > Len(prefix)
                                                /\ SubSeq(m, 1, Len(prefix)) = prefix}}

(* build_farmgym_observation_actions.make: the value ["'"] marks a leaf of *)
(* the paths; variables[key] raises when the live tree has no such key.    *)
RECURSIVE observation_make(_, _, _)
observation_make(dictio, leaves, prefix) ==
    CASE dictio.t = "list" ->
           [raised |-> FALSE, t |-> "dict",
            items |-> [i \in 1..Len(dictio.keys) |->
                          [key |-> dictio.keys[i],
                           paths |-> [raised |-> FALSE, t |-> "leaf", items |-> <<>>]]]]
      [] dictio.t = "dict" ->
           LET subs == [i \in 1..Len(dictio.items) |->
                           IF dictio.items[i].key = Star
                           THEN [raised |-> FALSE, t |-> "leaf", items |-> <<>>]
                           ELSE IF dictio.items[i].key \notin children(leaves, prefix)
                           THEN [raised |-> TRUE, t |-> "leaf", items |-> <<>>]
                           ELSE observation_make(dictio.items[i].sel, leaves,
                                                 prefix \o <<dictio.items[i].key>>)]
           IN [raised |-> \E i \in 1..Len(subs) : subs[i].raised, t |-> "dict",
               items |-> [i \in 1..Len(subs) |-> [key |-> dictio.items[i].key, paths |-> subs[i]]]]
      [] OTHER -> [raised |-> FALSE, t |-> "leaf", items |-> <<>>]

(* build_farmgym_observation_actions.unpile                                *)
RECURSIVE unpile(_, _, _)
unpile(var, paths, prefix) ==
    IF paths.t = "dict"
    THEN FlatSeq([i \in 1..Len(paths.items) |->
                    IF paths.items[i].key = Star
                    THEN unpile(var, paths.items[i].paths, prefix)
                    ELSE unpile(var, paths.items[i].paths, prefix \o <<paths.items[i].key>>)])
    ELSE <<[var EXCEPT !.path = prefix]>>

(* Whitelist nodes of depth one and two over the keys "*", 1, 2 and 3 (a   *)
(* key the live tree does not hold).                                       *)
Selectors ==
    LET KeyLists == {ks \in SeqsUpTo({Star, 1, 2, 3}, 2) :
                        ks # <<>> /\ \A i, j \in 1..Len(ks) : i # j => ks[i] # ks[j]}
        Flat == {Sel("none", <<>>, <<>>)} \cup {Sel("list", ks, <<>>) : ks \in KeyLists}
    IN Flat
         \cup {Sel("dict", <<>>, <<[key |-> k, sel |-> sub]>>) : k \in {Star, 1, 2, 3}, sub \in Flat}
         \cup {Sel("dict", <<>>, <<[key |-> 2, sel |-> sub], [key |-> k, sel |-> Sel("none", <<>>, <<>>)]>>) :
                  sub \in Flat, k \in {Star, 1}}

InitCatalog ==
    /\ InitFarm({[allowed |-> Whitelists[3], mode |-> "AOMDP"]})
    /\ np_random = np_random_of(0)
    /\ twin = NoTwin
    /\ conv = NoConv
    /\ api = NoApi

(* The loop body of build_farmgym_observation_actions for one whitelisted  *)
(* variable of one entity.                                                 *)
BuildObservationActions(dictio) ==
    /\ LET paths == observation_make(dictio, VariableLeaves, <<>>)
       IN api' = [api EXCEPT !.catalog =
                     [done |-> TRUE, dictio |-> dictio, raised |-> paths.raised,
                      actions |-> IF paths.raised THEN <<>>
                                  ELSE unpile(ObsEntry(1, 1, "water"), paths, <<>>)]]
    /\ ApiFrame

NextCatalog == \E dictio \in Selectors : BuildObservationActions(dictio)

SpecCatalog == InitCatalog /\ [][NextCatalog]_vars

(***************************************************************************)
(* Grids of Range objects.  A numpy array of dtype object holds references *)
(* to objects: cells[c] is the object the cell c refers to, objects the    *)
(* Range objects the array refers to.                                      *)
(***************************************************************************)
MaxSide == 2
MaxLookahead == 3

(* fillarray: one Range object is constructed for each cell.               *)
fillarray(x, y, myrange, value) ==
    [cells |-> [c \in 1..(x * y) |-> c],
     objects |-> [c \in 1..(x * y) |-> Range(myrange, value)]]

(* np.full(n, fill_value = Range(...)): the one object given as fill_value *)
(* is stored in every cell.                                                *)
np_full(n, fill_value) ==
    [cells |-> [c \in 1..n |-> 1], objects |-> <<fill_value>>]

(* The grids an entity builds: the soil's grids by fillarray, the          *)
(* forecast arrays of Weather by np.full.                                  *)
InitGrid ==
    /\ InitFarm({[allowed |-> Whitelists[3], mode |-> "AOMDP"]})
    /\ np_random = np_random_of(0)
    /\ twin = NoTwin
    /\ conv = NoConv
    /\ \E ar \in {fillarray(x, y, TupleRange(0, MaxReal - 1), Num(0)) :
                      x \in 1..MaxSide, y \in 1..MaxSide}
                  \cup {np_full(n, Range(TupleRange(0, MaxReal - 1), Num(0))) :
                           n \in 1..MaxLookahead} :
          api = [NoApi EXCEPT !.grid.cells = ar.cells, !.grid.objects = ar.objects]

(* ar[i].set_value(value)                                                  *)
SetCellValue(i, value) ==
    /\ api' = [api EXCEPT !.grid.objects[api.grid.cells[i]] = set_value(@, value),
                          !.grid.done = TRUE, !.grid.i = i,
                          !.grid.before = [c \in 1..Len(api.grid.cells) |->
                                              api.grid.objects[api.grid.cells[c]].value]]
    /\ ApiFrame

NextGrid ==
    \E i \in 1..Len(api.grid.cells), v \in 0..MaxReal : SetCellValue(i, Num(v))

SpecGrid == InitGrid /\ [][NextGrid]_vars


(***************************************************************************)
(* Properties.                                                             *)
(***************************************************************************)
Returning(cs) == SelectSeq(cs, LAMBDA c : c.phase \in {"observe", "intervene"} /\ ~c.raised)
LastCall == calls[Len(calls)]
IsStepOutput(o) == o.call \in {"step", "farmgym_step"} /\ ~o.raised

(* C1: every farmgym_step call that returns flips the phase flag once:     *)
(* the first returning call after a reset executes the observe phase, and  *)
(* each returning call executes the phase the previous one did not.        *)
C1_StrictAlternation ==
    [][LET ret == Returning(calls')
           ps == <<episode.last_phase>> \o [i \in 1..Len(ret) |-> ret[i].phase]
       IN /\ \A i \in 2..Len(ps) :
                 ps[i] = (IF ps[i - 1] = "observe" THEN "intervene" ELSE "observe")
          /\ Len(ps) > 1 => (is_observation_time' <=> ps[Len(ps)] = "intervene")]_vars

C1_Witness ==
    /\ interaction_mode = "AOMDP"
    /\ Len(calls) = 1 /\ LastCall.phase = "intervene" /\ ~LastCall.raised
    /\ is_observation_time

(* C2: a step executed in the observe phase changes no entity variable,    *)
(* consumes no random draw, runs no intervention and no daily update, and  *)
(* returns reward 0, terminated False, truncated False, whatever the       *)
(* action list was.                                                        *)
C2_ObserveStepFrame ==
    [][(calls' # <<>> /\ \A i \in 1..Len(calls') :
                            calls'[i].phase = "observe" /\ ~calls'[i].raised)
         => /\ fields' = fields
            /\ np_random' = np_random
            /\ \A i \in 1..Len(calls') :
                  /\ \A k \in 1..Len(calls'[i].filtered) : calls'[i].filtered[k].kind = "obs"
                  /\ \A k \in 1..Len(calls'[i].trace) : calls'[i].trace[k].ev = "observe"
            /\ ~output'.raised =>
                  output'.reward = 0 /\ ~output'.terminated /\ ~output'.truncated]_vars

C2_Witness ==
    /\ Len(calls) = 1 /\ LastCall.phase = "observe" /\ ~LastCall.raised
    /\ LastCall.dropped > 0 /\ LastCall.filtered = <<>>
    /\ IsStepOutput(output) /\ output.reward = 0

(* C3: in an intervention step the interventions are dispatched in list    *)
(* order before any update; then every field is updated once in            *)
(* registration order, then every farmer once; reward and termination are  *)
(* evaluated after the updates and the free observations are read last,    *)
(* from the updated state.                                                 *)
C3_InterventionOrder ==
    [][\A i \in 1..Len(calls') :
          (calls'[i].phase = "intervene" /\ ~calls'[i].raised) =>
             LET t == calls'[i].trace
                 n == Len(calls'[i].filtered)
                 u == n + NumFields + NumFarmers
             IN /\ Len(t) > u
                /\ \A k \in 1..n : t[k] = Ev("act", k)
                /\ \A f \in FieldIds : t[n + f] = Ev("update_field", f)
                /\ \A a \in FarmerIds : t[n + NumFields + a] = Ev("update_farmer", a)
                /\ \A j \in (u + 1)..Len(t) :
                      t[j].ev \in {"reward", "is_terminal", "final_reward", "free_obs"}
                /\ t[Len(t)] = Ev("free_obs", 0)
                /\ fields' = fields_update_to_next_day(
                                 perform_interventions(fields, calls'[i].filtered), np_random)
                /\ (i = Len(calls') /\ IsStepOutput(output')) =>
                      LET obs == output'.farmgym_observations
                          free == get_free_observations(free_observations, fields')
                      IN /\ Len(obs) >= Len(free)
                         /\ SubSeq(obs, Len(obs) - Len(free) + 1, Len(obs)) = free]_vars

C3_Witness ==
    /\ calls # <<>> /\ LastCall.phase = "intervene" /\ ~LastCall.raised
    /\ Len(LastCall.filtered) = 2
    /\ LastCall.filtered[1].name = "harvest" /\ LastCall.filtered[2].name = "water"
    /\ LastCall.filtered[1].fi = LastCall.filtered[2].fi
    /\ Len(output.farmgym_observations) > 0

(* C4: the reward of an intervention step is the sum of the fields'        *)
(* rewards plus, exactly when the state after the update is terminal, the  *)
(* sum of the fields' final rewards; terminated is the termination         *)
(* predicate on the state after the update; truncated is False.            *)
C4_RewardAndTermination ==
    (calls # <<>> /\ LastCall.phase = "intervene" /\ ~LastCall.raised /\ IsStepOutput(output))
      => /\ output.reward
              = SumSeq([i \in FieldIds |-> reward_of(fields[i])])
                  + (IF is_terminal(fields)
                     THEN SumSeq([i \in FieldIds |-> final_reward_of(fields[i])]) ELSE 0)
         /\ output.terminated = is_terminal(fields)
         /\ output.truncated = FALSE

C4_Witness ==
    /\ calls # <<>> /\ LastCall.phase = "intervene" /\ IsStepOutput(output)
    /\ output.terminated /\ output.reward > 10 * NumFields

C4_WitnessRunning ==
    /\ calls # <<>> /\ LastCall.phase = "intervene" /\ IsStepOutput(output)
    /\ ~output.terminated /\ output.reward > 0


(* C5 as stated: once an intervention step has returned terminated = True, *)
(* the final reward has been added exactly once in the episode and no      *)
(* update runs until the next reset, whatever calls follow.                *)
C5_Original ==
    episode.terminal_steps > 0 =>
        episode.final_rewards = 1 /\ episode.updates_after_terminal = 0

(* C5 amended: the final reward is added once by every step that returns   *)
(* terminated = True and by no other call; after the first such step no    *)
(* update runs until the next reset or the next intervene-phase step.      *)
C5_Amended ==
    /\ episode.final_rewards = episode.terminal_steps
    /\ (episode.terminal_steps > 0 /\ episode.steps_after_terminal = 0) =>
          episode.final_rewards = 1 /\ episode.updates_after_terminal = 0

C5_Witness ==
    /\ episode.terminal_steps = 1 /\ episode.steps_after_terminal = 0
    /\ calls # <<>> /\ LastCall.phase = "observe" /\ IsStepOutput(output)

C7_StepCalls ==
    (output.call = "step" /\ ~output.raised /\ ~episode.direct) =>
        IF interaction_mode = "POMDP"
        THEN /\ Len(calls) = 2
             /\ calls[1].phase = "observe" /\ calls[1].filtered = <<>> /\ calls[1].dropped = 0
             /\ calls[2].phase = "intervene"
             /\ is_observation_time
        ELSE Len(calls) = 1

(* C8: reset, called in any state, sets the observe phase, resets every    *)
(* field once, clears the history and returns the free observations once,  *)
(* one per entry of the free-observation catalog, read from the reset      *)
(* state.                                                                  *)
C8_Reset ==
    output.call = "reset" =>
        /\ is_observation_time
        /\ history = {}
        /\ \A f \in FieldIds :
              /\ Cardinality({k \in 1..Len(calls[1].trace) :
                                 calls[1].trace[k] = Ev("reset_field", f)}) = 1
              /\ fields[f].day = 0
        /\ CountEv(calls[1].trace, "free_obs") = 1
        /\ calls[1].trace[Len(calls[1].trace)] = Ev("free_obs", 0)
        /\ Len(output.farmgym_observations) = Len(free_observations)
        /\ output.farmgym_observations = get_free_observations(free_observations, fields)
        /\ episode.last_phase = "none"

C8_Witness ==
    /\ output.call = "reset"
    /\ ~output.before.is_observation_time
    /\ output.before.history # {}
    /\ output.before.terminal_steps > 0
    /\ Len(output.farmgym_observations) > 0


(* C9: two runs that last passed the same seed to reset and have received  *)
(* the same action lists since show the same observations, rewards and     *)
(* termination flags and are in the same state, also when one of them      *)
(* called reset with that seed twice in a row before stepping.             *)
C9_SameSeedSameTrajectory ==
    twin.synced => Trajectory(output) = twin.output /\ Core = twin.core

C9_Witness ==
    /\ twin.synced /\ twin.again
    /\ output.call = "step" /\ ~output.raised
    /\ episode.last_phase = "intervene"
    /\ \E i \in FieldIds : fields[i].water < MaxWater

(* C10: the flat space has O + (sum of ng) indices; index i < O decodes to *)
(* entry i of the observation catalog, and an index of                     *)
(* [O + sum of ng before k, O + sum of ng up to k) decodes to an           *)
(* intervention of the k-th entry of the intervention catalog; the index   *)
(* just past the space decodes to nothing.                                 *)
C10_FlatLayout ==
    LET obs == space_builder.farmgym_observation_actions
        ents == space_builder.farmgym_intervention_actions
        O == Len(obs)
        n == build_gym_discretized_action_space(space_builder)
    IN /\ n = O + SumSeq([k \in 1..Len(ents) |-> ents[k].ng])
       /\ (O = 3 /\ Len(ents) = 1 /\ ents[1].ng = 4) => n = 7
       /\ conv.actions # <<>> =>
            LET i == conv.actions[1]
            IN /\ (0 <= i /\ i < O) =>
                     conv.decoded = [ok |-> TRUE, acts |-> <<ObsAction(obs[i + 1])>>]
               /\ \A k \in 1..Len(ents) :
                     (block_start(space_builder, k) <= i
                        /\ i < block_start(space_builder, k) + ents[k].ng) =>
                         /\ conv.decoded.ok
                         /\ Len(conv.decoded.acts) = 1
                         /\ conv.decoded.acts[1].kind = "int"
                         /\ conv.decoded.acts[1].fi = ents[k].fi
                         /\ conv.decoded.acts[1].name = ents[k].a
               /\ i >= n => ~conv.decoded.ok

C10_Witness ==
    /\ Len(space_builder.farmgym_observation_actions) = 3
    /\ Len(space_builder.farmgym_intervention_actions) = 1
    /\ space_builder.farmgym_intervention_actions[1].ng = 4
    /\ conv.actions = <<6>>
    /\ conv.decoded.ok
    /\ conv.decoded.acts[1].kind = "int"


(***************************************************************************)
(* The number of leaf combinations of a parameter schema: the product of   *)
(* the cardinalities of all its leaves, at any depth.                      *)
(***************************************************************************)
RECURSIVE LeafCombinations(_, _)
LeafCombinations(schema, B) ==
    CASE schema.type = "list" -> Len(schema.dom)
      [] schema.type = "box" -> B
      [] schema.type = "none" -> 1
      [] OTHER ->
           LET RECURSIVE prod(_)
               prod(k) == IF k = 0 THEN 1
                          ELSE LeafCombinations(schema.items[k].leaf, B) * prod(k - 1)
           IN prod(Len(schema.items))

(* The leaves of a decoded parameter list lie in their axes: a list leaf   *)
(* in its list, an interval leaf in [min, max).                            *)
ParamsInAxes(f_a, params) ==
    \A p \in SeqToSet(params) :
        LET leaf == IF f_a.type = "dict"
                    THEN (CHOOSE it \in SeqToSet(f_a.items) : it.key = p.key).leaf
                    ELSE f_a
        IN CASE leaf.type = "box" ->
                  /\ leaf.lo * p.val.den <= p.val.num
                  /\ p.val.num < leaf.hi * p.val.den
             [] leaf.type = "list" ->
                  \E e \in SeqToSet(leaf.dom) : p.val \in {Rat(e, 1), [num |-> e - 100, den |-> -1]}
             [] OTHER -> TRUE

(* C11: every index of [O, O + sum of ng) decodes, without error, to one   *)
(* intervention of one entry with every parameter inside its axis;         *)
(* distinct indices decode to distinct interventions, and each entry is    *)
(* decoded to as many interventions as its schema has leaf combinations,   *)
(* whatever the shape of the schema.                                       *)
C11_ExhaustiveDecode ==
    LET ents == space_builder.farmgym_intervention_actions
        O == Len(space_builder.farmgym_observation_actions)
        n == build_gym_discretized_action_space(space_builder)
        B == space_builder.discretization_nbins
        dec == [i \in O..(n - 1) |-> decode_index(space_builder, i)]
    IN /\ \A i \in O..(n - 1) :
             /\ dec[i].ok
             /\ Len(dec[i].acts) = 1
             /\ dec[i].acts[1].kind = "int"
             /\ \E k \in 1..Len(ents) :
                   /\ dec[i].acts[1].fi = ents[k].fi
                   /\ ParamsInAxes(ents[k].f_a, dec[i].acts[1].params)
       /\ \A i, j \in O..(n - 1) : i # j => dec[i] # dec[j]
       /\ \A k \in 1..Len(ents) :
             Cardinality({i \in O..(n - 1) : dec[i].acts[1].fi = ents[k].fi})
                = LeafCombinations(ents[k].f_a, B)

(* C13: the memoized ng of every intervention entry is the product of the  *)
(* cardinalities of all the leaves of its parameter schema: the length of  *)
(* a list, the number of bins of an interval, 1 for no parameter.          *)
C13_CompositeCardinality ==
    \A k \in 1..Len(space_builder.farmgym_intervention_actions) :
        LET en == space_builder.farmgym_intervention_actions[k]
        IN en.ng = LeafCombinations(en.f_a, space_builder.discretization_nbins)

(***************************************************************************)
(* Comparison of rationals with positive denominators.                     *)
(***************************************************************************)
RatEq(a, b) == a.den > 0 /\ b.den > 0 /\ a.num * b.den = b.num * a.den
RatLess(a, b) == a.den > 0 /\ b.den > 0 /\ a.num * b.den < b.num * a.den

(* min + j / (B + 1) * (max - min)                                         *)
BinValue(lo, hi, B, j) == Rat(lo * (B + 1) + j * (hi - lo), B + 1)

(* The value decoded for parameter key by flat index i.                    *)
DecodedValue(i, key) == act_lookup(decode_index(space_builder, i).acts[1].params, key)

(* C12: on an interval (min, max) cut in B bins, digit j of [0, B) decodes *)
(* to min + j / (B + 1) * (max - min), when the interval is the whole      *)
(* schema (the digit is the offset in the block) and when it is one        *)
(* parameter of a mapping (the values of the block are these B values);    *)
(* the value grows strictly with j, digit 0 gives min and the top digit    *)
(* stays below max; (0, 20) with 11 bins decodes offset 5 to 100/12.       *)
C12_BinValues ==
    LET ents == space_builder.farmgym_intervention_actions
        B == space_builder.discretization_nbins
    IN \A k \in 1..Len(ents) :
         LET en == ents[k]
             s == block_start(space_builder, k)
         IN /\ en.f_a.type = "box" =>
                 /\ en.ng = B
                 /\ \A j \in 0..(B - 1) :
                       /\ RatEq(DecodedValue(s + j, 0), BinValue(en.f_a.lo, en.f_a.hi, B, j))
                       /\ j = 0 => RatEq(DecodedValue(s + j, 0), Rat(en.f_a.lo, 1))
                       /\ j > 0 => RatLess(DecodedValue(s + j - 1, 0), DecodedValue(s + j, 0))
                       /\ RatLess(DecodedValue(s + j, 0), Rat(en.f_a.hi, 1))
                 /\ (en.f_a = Schema(LeafBox(0, 20)) /\ B = 11) =>
                       RatEq(DecodedValue(s + 5, 0), Rat(100, 12))
            /\ en.f_a = SchemaBoxAmount =>
                 /\ \A i \in s..(s + en.ng - 1) :
                       \E j \in 0..(B - 1) : RatEq(DecodedValue(i, 1), BinValue(0, 20, B, j))
                 /\ \A j \in 0..(B - 1) :
                       \E i \in s..(s + en.ng - 1) : RatEq(DecodedValue(i, 1), BinValue(0, 20, B, j))
                 /\ \A i \in s..(s + en.ng - 1) : RatLess(DecodedValue(i, 1), Rat(20, 1))

(* An index at offset 5 of the block of an interval (0, 20) cut in 11 bins *)
(* has been decoded, beside a mapping that holds an interval.              *)
C12_Witness ==
    /\ space_builder.discretization_nbins = 11
    /\ Len(space_builder.farmgym_intervention_actions) = 2
    /\ space_builder.farmgym_intervention_actions[1].f_a = Schema(LeafBox(0, 20))
    /\ space_builder.farmgym_intervention_actions[2].f_a = SchemaBoxAmount
    /\ conv.actions = <<block_start(space_builder, 1) + 5>>
    /\ conv.decoded.ok
    /\ conv.decoded.acts[1].params = <<Param(0, Rat(100, 12))>>

(* C14: a list of structured actions decoded from valid intervention       *)
(* indices is encoded without error, and decoding the encoding gives the   *)
(* list back, with an empty and with a non-empty observation catalog.      *)
C14_RoundTrip ==
    LET O == Len(space_builder.farmgym_observation_actions)
        n == build_gym_discretized_action_space(space_builder)
    IN (conv.encoded.done /\ O <= conv.actions[1] /\ conv.actions[1] < n) =>
          /\ conv.encoded.ok
          /\ conv.encoded.back = conv.decoded

(* C15: a continuous Ranged Value holds min <= value <= max after its      *)
(* construction, whatever the initial value, and after any set_value(x),   *)
(* x a number or not; a set_value(x) with x not a number leaves            *)
(* default_value as the value.                                             *)
C15_ContinuousInRange ==
    (~api.ranged.raised /\ api.ranged.range.tuple) =>
        /\ api.ranged.value.real
        /\ api.ranged.range.min <= api.ranged.value.v
        /\ api.ranged.value.v <= api.ranged.range.max
        /\ (api.writes > 0 /\ ~api.last.real) => api.ranged.value = api.ranged.default_value

(* C16: a categorical Ranged Value over a non-empty domain holds a value   *)
(* of the domain after its construction, the first element when the        *)
(* initial value is not in the domain, and after any set_value; a          *)
(* set_value(v) with v outside the domain leaves the value as it was.      *)
C16_CategoricalInDomain ==
    LET r == api.ranged
        domain == {r.range.dom[i] : i \in 1..Len(r.range.dom)}
    IN (~r.raised /\ ~r.range.tuple /\ domain # {}) =>
          /\ r.value \in domain
          /\ (api.writes = 0 /\ r.default_value \notin domain) => r.value = r.range.dom[1]
          /\ (api.writes > 0 /\ api.last \notin domain) => r.value = api.before
          /\ (api.writes > 0 /\ api.last \in domain) => r.value = api.last

(* A categorical value constructed from an initial value outside its       *)
(* domain has been written twice, last with a value outside the domain.    *)
C16_Witness ==
    /\ ~api.ranged.raised
    /\ api.ranged.range = ListRange(<<Num(1), Num(2)>>)
    /\ api.ranged.default_value = Num(3)
    /\ api.writes = 2
    /\ api.last = Str(1)
    /\ api.before = Num(2)
    /\ api.ranged.value = Num(2)

(* C20: the construction of an entity fails when the parameters supplied,  *)
(* as a mapping or as the content of the named specification file, lack a  *)
(* key of get_parameter_keys().                                            *)
C20_MissingKeyFails ==
    LET en == api.entity
        supplied == IF en.is_str
                    THEN (IF en.name \in DOMAIN SpecificationFiles
                          THEN SpecificationFiles[en.name] ELSE {})
                    ELSE en.keys
    IN (en.tried /\ \E k \in get_parameter_keys : k \notin supplied) => ~en.built

(* C17: in the act-only mode the observation catalog used for indexing is  *)
(* empty, so the flat space holds the intervention blocks alone and every  *)
(* index of it decodes to an intervention; the free observations are those *)
(* of the "Free" whitelist, as they are in the two-phase mode.             *)
C17_ActOnlyCatalog ==
    LET n == build_gym_discretized_action_space(space_builder)
        ents == space_builder.farmgym_intervention_actions
    IN /\ free_observations = actions_allowed.free
       /\ interaction_mode = "POMDP" =>
            /\ space_builder.farmgym_observation_actions = <<>>
            /\ n = SumSeq([k \in 1..Len(ents) |-> ents[k].ng])
            /\ \A i \in 0..(n - 1) :
                  LET d == decode_index(space_builder, i)
                  IN d.ok /\ d.acts[1].kind = "int"
            /\ (output.call = "step" /\ ~output.raised) =>
                  \A a \in SeqToSet(LastCall.filtered) : a.kind = "int"

(* An act-only farm whose whitelist names observations and free            *)
(* observations has returned from a step that applied an intervention.     *)
C17_Witness ==
    /\ interaction_mode = "POMDP"
    /\ actions_allowed.observations # <<>>
    /\ free_observations # <<>>
    /\ output.call = "step" /\ ~output.raised
    /\ Len(calls) = 2
    /\ LastCall.filtered # <<>>

(***************************************************************************)
(* The free observations of the current fields, one tuple per entry of the *)
(* free-observation catalog, and the test that they end a list.            *)
(***************************************************************************)
FreeTuples ==
    [k \in 1..Len(free_observations) |->
        Obs(free_observations[k].fa, free_observations[k].fi, free_observations[k].e,
            free_observations[k].var, free_observations[k].path,
            entity_observe_variable(fields[free_observations[k].fi], free_observations[k].var))]

EndsWithFreeTuples(observations) ==
    /\ Len(observations) >= Len(FreeTuples)
    /\ SubSeq(observations, Len(observations) - Len(FreeTuples) + 1, Len(observations))
          = FreeTuples

ScheduleCost(schedule) ==
    SumSeq([k \in 1..Len(schedule) |->
               IF schedule[k].kind = "obs" THEN observation_cost(schedule[k])
               ELSE intervention_cost(schedule[k])])

(* C18 as stated: the output of reset() and of every step that returns, in *)
(* either phase and either mode, ends with the free observations, and the  *)
(* reported cost is the cost of the scheduled actions alone.               *)
C18_Original ==
    (output.call \in {"reset", "step", "farmgym_step"} /\ ~output.raised) =>
        /\ EndsWithFreeTuples(output.farmgym_observations)
        /\ output.call # "reset" =>
              \A key \in DOMAIN LastCall.info : LastCall.info[key] = ScheduleCost(LastCall.filtered)

(* C18 amended: the output of reset() and of every step that returns from  *)
(* the intervene phase ends with the free observations; a step that        *)
(* returns from the observe phase holds the scheduled observations alone;  *)
(* the reported cost is the cost of the scheduled actions alone.           *)
C18_Amended ==
    (output.call \in {"reset", "step", "farmgym_step"} /\ ~output.raised) =>
        /\ output.call = "reset" => output.farmgym_observations = FreeTuples
        /\ (output.call # "reset" /\ LastCall.phase = "intervene") =>
              EndsWithFreeTuples(output.farmgym_observations)
        /\ (output.call # "reset" /\ LastCall.phase = "observe") =>
              Len(output.farmgym_observations) = Len(LastCall.filtered)
        /\ output.call # "reset" =>
              \A key \in DOMAIN LastCall.info : LastCall.info[key] = ScheduleCost(LastCall.filtered)

(* A step of a farm with free observations has returned from the intervene *)
(* phase after a paid intervention.                                        *)
C18_Witness ==
    /\ Len(free_observations) = 2
    /\ output.call = "step" /\ ~output.raised
    /\ LastCall.phase = "intervene"
    /\ LastCall.filtered # <<>>
    /\ Len(output.farmgym_observations) = 2

(* C19: the decoding of an index outside [0, O + sum of ng), negative or   *)
(* not below O + sum of ng, raises and yields no structured action.        *)
C19_OutsideIndexAborts ==
    LET n == build_gym_discretized_action_space(space_builder)
    IN (conv.actions # <<>> /\ (conv.actions[1] < 0 \/ conv.actions[1] >= n)) =>
          /\ ~conv.decoded.ok
          /\ conv.decoded.acts = <<>>

(***************************************************************************)
(* A decoded value lies in a leaf of a whitelisted schema (a list element  *)
(* that spells a tuple is decoded to that tuple), and a decoded parameter  *)
(* list lies in a schema, with exactly the keys of the schema.             *)
(***************************************************************************)
ValueInLeaf(leaf, val) ==
    CASE leaf.type = "box" ->
           val.den > 0 /\ leaf.lo * val.den <= val.num /\ val.num <= leaf.hi * val.den
      [] leaf.type = "list" ->
           \E i \in 1..Len(leaf.dom) :
               \/ val = [num |-> leaf.dom[i], den |-> 1]
               \/ leaf.dom[i] >= 100 /\ val = [num |-> leaf.dom[i] - 100, den |-> -1]
      [] leaf.type = "none" -> val.den = 0
      [] OTHER -> FALSE

ParamsInSchema(f_a, params) ==
    CASE f_a.type = "none" -> params = <<>>
      [] f_a.type = "dict" ->
           /\ Len(params) = Len(f_a.items)
           /\ {params[i].key : i \in 1..Len(params)}
                 = {f_a.items[i].key : i \in 1..Len(f_a.items)}
           /\ \A i \in 1..Len(params) :
                 \E j \in 1..Len(f_a.items) :
                     /\ f_a.items[j].key = params[i].key
                     /\ ValueInLeaf(f_a.items[j].leaf, params[i].val)
      [] OTHER -> Len(params) = 1 /\ ValueInLeaf(f_a, params[1].val)

LeafCard(leaf, B) ==
    CASE leaf.type = "list" -> Len(leaf.dom)
      [] leaf.type = "box" -> B
      [] OTHER -> 1

RECURSIVE PlaceValue(_, _, _)
PlaceValue(items, i, B) ==
    IF i >= Len(items) THEN 1
    ELSE LeafCard(items[i + 1].leaf, B) * PlaceValue(items, i + 1, B)

DigitValue(leaf, d, B) ==
    CASE leaf.type = "list" ->
           IF leaf.dom[d + 1] >= 100 THEN [num |-> leaf.dom[d + 1] - 100, den |-> -1]
           ELSE [num |-> leaf.dom[d + 1], den |-> 1]
      [] leaf.type = "box" -> BinValue(leaf.lo, leaf.hi, B, d)
      [] OTHER -> [num |-> 0, den |-> 0]

(* C22: for a mapping schema, the offset of an index in its block is read  *)
(* in mixed radix in the declared order of the keys: the first declared    *)
(* key is the most significant digit, and the place value of a key is the  *)
(* product of the cardinalities of the keys declared after it.             *)
C22_DeclaredKeyOrder ==
    LET ents == space_builder.farmgym_intervention_actions
        B == space_builder.discretization_nbins
    IN (conv.actions # <<>> /\ conv.decoded.ok) =>
          \A k \in 1..Len(ents) :
              LET t == conv.actions[1] - block_start(space_builder, k)
                  items == ents[k].f_a.items
              IN (0 <= t /\ t < ents[k].ng /\ ents[k].f_a.type = "dict") =>
                    \A i \in 1..Len(items) :
                        act_lookup(conv.decoded.acts[1].params, items[i].key)
                          = DigitValue(items[i].leaf,
                                       (t \div PlaceValue(items, i, B)) % LeafCard(items[i].leaf, B),
                                       B)

(* C23: the search of the encoding decodes the indices of the flat space   *)
(* alone, so that it ends without an error for every list of actions and   *)
(* every size of the observation catalog.                                  *)
C23_EncodeStaysInside ==
    conv.encoded.done => conv.encoded.ok

(* A parameter value is an element of a declared list: the element itself, *)
(* or the tuple a string element spells.                                   *)
InDeclaredList(dom, val) ==
    \E i \in 1..Len(dom) :
        \/ val = Rat(dom[i], 1)
        \/ dom[i] >= TupleString(0) /\ val = yml_tuple_constructor(dom[i])

DeclaredLeaf(f_a, key) == (CHOOSE it \in SeqToSet(f_a.items) : it.key = key).leaf

(* The four cases of an intervention the entity does not declare.          *)
OutsideDeclaration(en, action_name, action_params) ==
    \/ action_name \notin DOMAIN en.actions
    \/ /\ action_name \in DOMAIN en.actions
       /\ \E i \in 1..Len(action_params) :
             LET p == action_params[i]
                 f_a == en.actions[action_name]
             IN \/ \A it \in SeqToSet(f_a.items) : it.key # p.key
                \/ /\ \E it \in SeqToSet(f_a.items) : it.key = p.key
                   /\ LET leaf == DeclaredLeaf(f_a, p.key)
                      IN \/ /\ leaf.type = "box"
                            /\ p.val.den = 1
                            /\ (p.val.num < leaf.lo \/ p.val.num > leaf.hi)
                         \/ leaf.type = "list" /\ ~InDeclaredList(leaf.dom, p.val)

C24_WitnessBound ==
    /\ api.soil.last.done
    /\ api.soil.last.action_name = "water_continuous"
    /\ api.soil.last.action_params = <<Param(1, Rat(MaxReal - 1, 1)),
                                       Param(plot, yml_tuple_constructor(TupleString(0)))>>
    /\ ~api.soil.last.raised
    /\ api.soil.en.variables # api.soil.last.before

(* The paths the catalog holds for a whitelist node when a wildcard stands *)
(* for each child of the node in the live tree.                            *)
RECURSIVE PathsPerChild(_, _)
PathsPerChild(dictio, prefix) ==
    LET of_key(key, sub) ==
            IF key = Star
            THEN {prefix \o <<c>> : c \in children(VariableLeaves, prefix)}
            ELSE IF sub.t = "leaf" THEN {prefix \o <<key>>}
            ELSE PathsPerChild(sub, prefix \o <<key>>)
    IN CASE dictio.t = "list" ->
              UNION {of_key(dictio.keys[i], [t |-> "leaf"]) : i \in 1..Len(dictio.keys)}
         [] dictio.t = "dict" ->
              UNION {of_key(dictio.items[i].key, dictio.items[i].sel) : i \in 1..Len(dictio.items)}
         [] OTHER -> {prefix}

(* C25: the catalog built from the whitelist of a variable holds one tuple *)
(* (farmer, field, entity, variable, path) per path of the whitelist: a    *)
(* literal key extends the path, None ends it, and a wildcard stands for   *)
(* each child of its node in the live variable tree.                       *)
C25_CatalogPaths ==
    (api.catalog.done /\ ~api.catalog.raised) =>
        /\ {a.path : a \in SeqToSet(api.catalog.actions)} = PathsPerChild(api.catalog.dictio, <<>>)
        /\ \A a \in SeqToSet(api.catalog.actions) :
               [a EXCEPT !.path = <<>>] = ObsEntry(1, 1, "water")

(* C27: random_allowed_observation returns None on an empty observation    *)
(* catalog and an entry of the catalog otherwise; random_allowed_          *)
(* intervention returns the farmer, field, entity and action of one entry  *)
(* of the intervention catalog, with a parameter value inside the interval *)
(* or the list of every axis of the entry's schema, a schema that is one   *)
(* interval or one list included.                                          *)
C27_RandomAllowed ==
    LET r == conv.random
        obs == space_builder.farmgym_observation_actions
        ents == space_builder.farmgym_intervention_actions
    IN /\ (r.done /\ r.kind = "observation") =>
             /\ r.ok
             /\ r.none <=> Len(obs) = 0
             /\ ~r.none => r.result[1] \in SeqToSet(obs)
       /\ (r.done /\ r.kind = "intervention") =>
             /\ r.ok
             /\ \E k \in 1..Len(ents) :
                   /\ [r.result[1] EXCEPT !.params = <<>>]
                         = IntAction(ents[k].fa, ents[k].fi, ents[k].e, ents[k].a, <<>>)
                   /\ ParamsInSchema(ents[k].f_a, r.result[1].params)

(* C26: after the construction of the farm no reset, step, decoding,       *)
(* encoding, encoding of observations or random choice changes the         *)
(* observation catalog, the intervention catalog (the schema and ng of     *)
(* each entry included) or the free-observation catalog.                   *)
C26_CatalogsReadOnly ==
    [][/\ space_builder' = space_builder
       /\ free_observations' = free_observations
       /\ actions_allowed' = actions_allowed]_vars

(* A random choice made after an intervention phase, on a farm whose three *)
(* catalogs hold entries.                                                  *)
C26_Witness ==
    /\ conv.random.done
    /\ episode.last_phase = "intervene"
    /\ output.call = "step"
    /\ Len(space_builder.farmgym_observation_actions) > 0
    /\ Len(space_builder.farmgym_intervention_actions) > 0
    /\ Len(free_observations) > 0

(* C28: every cell of a grid holds its own Ranged Value: after set_value   *)
(* on the cell i every other cell of the grid has the value it had before, *)
(* in the grids made by fillarray and in the forecast arrays of Weather.   *)
C28_CellsApart ==
    api.grid.done =>
        \A j \in 1..Len(api.grid.cells) :
            j # api.grid.i =>
                api.grid.objects[api.grid.cells[j]].value = api.grid.before[j]

(* C29: in the auto-observing mode the phase is observe at the start of    *)
(* every agent-level step(), in every sequence of step() and reset()       *)
(* calls, those in which an earlier step() aborted included.               *)
C29_ObserveAtStepStart ==
    [][(interaction_mode = "POMDP" /\ output'.call = "step" /\ ~episode'.direct)
          => is_observation_time]_vars

(* C30: the encoding of a list of observation tuples holds one output per  *)
(* tuple, in the same order and under the same farmer, field, entity,      *)
(* variable and path, whose value is the encoding of the value the tuple   *)
(* carries, the feedback tuples of an intervention emitted before the      *)
(* day's update included.                                                  *)
C30_EncodesCarriedValue ==
    (output.call \in {"reset", "step"} /\ ~output.raised) =>
        /\ Len(output.observations) = Len(output.farmgym_observations)
        /\ \A k \in 1..Len(output.farmgym_observations) :
               output.observations[k]
                 = [output.farmgym_observations[k] EXCEPT !.value = gym_value(@)]


====
